---- MODULE Spec2Model ----
(***************************************************************************)
(* A model of the roboarm tube sorter: the TestMatrix allocator and the    *)
(* scan phase of main.py, the RobotController state store of               *)
(* robot_controller.py and the control endpoints of server.py.             *)
(*                                                                         *)
(* The module holds several specifications over one set of variables:      *)
(*   SpecAlloc   TestMatrix.add_tube over every accepted configuration     *)
(*   SpecScan    scan_and_request_parallel and its classification tasks    *)
(*   SpecSort    add_tube calls into racks of any small size, then         *)
(*               process_tubes_by_test_matrix; change_rack at any time     *)
(*   SpecServer  server.py as wired in the sources: the endpoints and the  *)
(*               run threads they launch                                   *)
(*   SpecCtl     one RobotController driven by the endpoints and by an     *)
(*               orchestrator client calling its public operations         *)
(*   SpecStore   two RobotController instances (two processes) over the    *)
(*               one state file                                            *)
(* A specification leaves the variables of the other parts unchanged.      *)
(* An endpoint is one step: its controller calls, each under the lock, run  *)
(* back to back. A thread takes one step per controller call or robot       *)
(* command, so endpoints and threads interleave between those.              *)
(***************************************************************************)
EXTENDS Integers, Sequences, FiniteSets, TLC

VARIABLES
    \* TestMatrix (main.py)
    test_types, rack_rows, rack_cols, racks, rack_positions, tubes, last_add,
    \* scan_and_request_parallel (main.py)
    scan_pc, scan_row, first_pass_data, second_pass_data, tasks, triggers,
    \* process_tubes_by_test_matrix (main.py) and the digital outputs it drives
    sort_pc, sort_idx, picked, placed, do_out, cmds,
    \* RobotController (robot_controller.py) and server.py
    file, mem, thread_pc, last_req, chk, written,
    \* One call of TestMatrix(...) and one classification request (main.py):
    \* the arguments and the outcome
    ctor, exchange, parsed,
    \* One call of move_robot_by_registers (main.py) and the manipulator it
    \* commands
    move

allocVars ==
    <<test_types, rack_rows, rack_cols, racks, rack_positions, tubes, last_add>>
scanVars ==
    <<scan_pc, scan_row, first_pass_data, second_pass_data, tasks, triggers>>
sortVars == <<sort_pc, sort_idx, picked, placed, do_out, cmds>>
ctlVars == <<file, mem, thread_pc, last_req, chk, written>>
callVars == <<ctor, exchange, parsed, move>>
vars == <<allocVars, scanVars, sortVars, ctlVars, callVars>>

None == "None"

----------------------------------------------------------------------------
(* class TestType(Enum), in declaration order *)
TestTypeSeq ==
    <<"ugi", "vpch", "ugi+vpch", "general", "buffer", "error", "unknown">>

TestType == {TestTypeSeq[i] : i \in DOMAIN TestTypeSeq}

\* TestMatrix.__init__ accepts 2 <= len(test_types) <= 6
MinTypes == 2
MaxTypes == 6

\* Bounds of the allocator model
MaxRows == 2
MaxCols == 2
MaxTubes == 3

\* list.index(x): position of the first occurrence, counted from 0
RECURSIVE IndexFrom(_, _, _)
IndexFrom(s, x, i) ==
    IF i > Len(s) THEN -1
    ELSE IF s[i] = x THEN i - 1
    ELSE IndexFrom(s, x, i + 1)

IndexOf(s, x) == IndexFrom(s, x, 1)

Range(s) == {s[i] : i \in DOMAIN s}

\* The configurations the constructor accepts, as the model draws them: every
\* choice of 2 to 6 distinct types in declaration order, and the lists that
\* name one type twice (the racks dict then holds a single rack).
Configs ==
    {SelectSeq(TestTypeSeq, LAMBDA x : x \in S) :
        S \in {T \in SUBSET TestType :
                 Cardinality(T) >= MinTypes /\ Cardinality(T) <= MaxTypes}}
    \cup {<<t, t>> : t \in TestType}

EmptyRack(rows, cols) == [cell \in (0 .. rows - 1) \X (0 .. cols - 1) |-> 0]

\* add_tube: the cursor after an assignment at (row, col)
AdvanceCursorNoRowStep(row, col, cols) ==
    IF col + 1 >= cols THEN <<row, 0>> ELSE <<row, col + 1>>

AdvanceCursorKeepCol(row, col, cols) ==
    IF col + 1 >= cols THEN <<row + 1, col>> ELSE <<row, col + 1>>

AdvanceCursor(row, col, cols) ==
    IF col + 1 >= cols THEN <<row + 1, 0>> ELSE <<row, col + 1>>

\* add_tube's two rejections
Supported(tt) == tt \in DOMAIN racks
RackFullOffByOne(tt) == rack_positions[tt][1] > rack_rows

RackFull(tt) == rack_positions[tt][1] >= rack_rows

\* TubeInfo after add_tube bound its destination
Assigned(barcode, tt) ==
    [barcode |-> barcode, test_type |-> tt,
     destination_rack |-> IndexOf(test_types, tt),
     destination_row |-> rack_positions[tt][1],
     destination_col |-> rack_positions[tt][2]]

\* The latest call of add_tube: the tube it was given and what it returned
NoAdd == [barcode |-> 0, test_type |-> None, ok |-> FALSE]

\* add_tube that puts a tube of a type without a rack into the first rack
AddTubeEffectDefaultRack(barcode, tt) ==
    LET rk == IF Supported(tt) THEN tt ELSE test_types[1]
        row == rack_positions[rk][1]
        col == rack_positions[rk][2]
    IN  IF ~RackFull(rk)
        THEN /\ racks' = [racks EXCEPT ![rk][<<row, col>>] = barcode]
             /\ tubes' = Append(tubes,
                    [barcode |-> barcode, test_type |-> tt,
                     destination_rack |-> IndexOf(test_types, rk),
                     destination_row |-> row, destination_col |-> col])
             /\ rack_positions' =
                    [rack_positions EXCEPT ![rk] = AdvanceCursor(row, col, rack_cols)]
             /\ last_add' = [barcode |-> barcode, test_type |-> tt, ok |-> TRUE]
        ELSE /\ last_add' = [barcode |-> barcode, test_type |-> tt, ok |-> FALSE]
             /\ UNCHANGED <<racks, tubes, rack_positions>>

\* add_tube that leaves the rack's cursor where it was
AddTubeEffectKeepCursor(barcode, tt) ==
    IF Supported(tt) /\ ~RackFull(tt)
    THEN LET row == rack_positions[tt][1]
             col == rack_positions[tt][2]
         IN  /\ racks' = [racks EXCEPT ![tt][<<row, col>>] = barcode]
             /\ tubes' = Append(tubes, Assigned(barcode, tt))
             /\ last_add' = [barcode |-> barcode, test_type |-> tt, ok |-> TRUE]
             /\ UNCHANGED rack_positions
    ELSE /\ last_add' = [barcode |-> barcode, test_type |-> tt, ok |-> FALSE]
         /\ UNCHANGED <<racks, tubes, rack_positions>>

\* The effect of add_tube(tube) on the TestMatrix; a rejected tube (unsupported
\* type, full rack) changes nothing and the call returns False.
AddTubeEffect(barcode, tt) ==
    IF Supported(tt) /\ ~RackFull(tt)
    THEN LET row == rack_positions[tt][1]
             col == rack_positions[tt][2]
         IN  /\ racks' = [racks EXCEPT ![tt][<<row, col>>] = barcode]
             /\ tubes' = Append(tubes, Assigned(barcode, tt))
             /\ rack_positions' =
                    [rack_positions EXCEPT ![tt] = AdvanceCursor(row, col, rack_cols)]
             /\ last_add' = [barcode |-> barcode, test_type |-> tt, ok |-> TRUE]
    ELSE /\ last_add' = [barcode |-> barcode, test_type |-> tt, ok |-> FALSE]
         /\ UNCHANGED <<racks, tubes, rack_positions>>

\* add_tube called again with the TubeInfo of the call before
AddTubeSameTube ==
    /\ last_add.barcode < MaxTubes
    /\ \E tt \in TestType :
          AddTubeEffect(IF last_add.barcode = 0 THEN 1 ELSE last_add.barcode, tt)
    /\ UNCHANGED <<test_types, rack_rows, rack_cols>>
    /\ UNCHANGED <<scanVars, sortVars, ctlVars, callVars>>

\* One call of TestMatrix.add_tube with a fresh TubeInfo of any classification
\* (the barcode numbers the calls)
AddTube ==
    /\ last_add.barcode < MaxTubes
    /\ \E tt \in TestType : AddTubeEffect(last_add.barcode + 1, tt)
    /\ UNCHANGED <<test_types, rack_rows, rack_cols>>
    /\ UNCHANGED <<scanVars, sortVars, ctlVars, callVars>>

\* TestMatrix.__init__
MatrixInit(types, rows, cols) ==
    /\ test_types = types
    /\ rack_rows = rows
    /\ rack_cols = cols
    /\ racks = [tt \in Range(types) |-> EmptyRack(rows, cols)]
    /\ rack_positions = [tt \in Range(types) |-> <<0, 0>>]
    /\ tubes = <<>>
    /\ last_add = NoAdd

\* The test_types lists handed to the constructor: every run of 0 to 7
\* consecutive types of the enum, and the lists that name one type twice
CtorArgs ==
    {SubSeq(TestTypeSeq, i, j) : i \in 1 .. Len(TestTypeSeq), j \in 0 .. Len(TestTypeSeq)}
    \cup {<<t, t>> : t \in TestType}

\* A constructor that refuses a list of two types
AcceptsConfigOffByOne(types) == MinTypes < Len(types) /\ Len(types) <= MaxTypes

\* TestMatrix.__init__: 2 <= len(test_types) <= 6
AcceptsConfig(types) == MinTypes <= Len(types) /\ Len(types) <= MaxTypes

\* No TestMatrix object exists
Unconstructed ==
    /\ test_types = <<>>
    /\ rack_rows = 0
    /\ rack_cols = 0
    /\ racks = <<>>
    /\ rack_positions = <<>>
    /\ tubes = <<>>
    /\ last_add = NoAdd

\* TestMatrix(test_types, rack_capacity): ValueError before any attribute is
\* set, or the object with one grid and one cursor per type
Construct ==
    /\ ctor.st = "none"
    /\ \E types \in CtorArgs, rows \in 1 .. MaxRows, cols \in 1 .. MaxCols :
          IF AcceptsConfig(types)
          THEN /\ ctor' = [st |-> "ok", test_types |-> types,
                           rack_capacity |-> <<rows, cols>>]
               /\ test_types' = types
               /\ rack_rows' = rows
               /\ rack_cols' = cols
               /\ racks' = [tt \in Range(types) |-> EmptyRack(rows, cols)]
               /\ rack_positions' = [tt \in Range(types) |-> <<0, 0>>]
               /\ tubes' = <<>>
               /\ UNCHANGED last_add
          ELSE /\ ctor' = [st |-> "ValueError", test_types |-> types,
                           rack_capacity |-> <<rows, cols>>]
               /\ UNCHANGED allocVars
    /\ UNCHANGED <<exchange, parsed, move>>
    /\ UNCHANGED <<scanVars, sortVars, ctlVars>>

----------------------------------------------------------------------------
(* Classification: get_tube_info_async's result and parse_test_type *)

\* A test code that is no string (str.lower raises on it)
NonStringCode == "<123>"

\* str.lower over the codes the model uses
Lower(code) ==
    CASE code = "UGI" -> "ugi"
      [] code = "VPCH" -> "vpch"
      [] OTHER -> code

NoResponse == [kind |-> "none"]
Success(codes) == [kind |-> "dict", status |-> "success", test_codes |-> codes]

\* What get_tube_info_async hands to a task: None (timeout, network error,
\* status other than 200) or the decoded reply
TaskResponses ==
    {NoResponse, Success(<<"ugi">>), Success(<<"VPCH">>), Success(<<"xyz">>),
     Success(<<NonStringCode>>)}

\* dict.get(key, default)
Get(d, key, default) == IF key \in DOMAIN d THEN d[key] ELSE default

\* response.status == 200
HttpOk == 200

\* Longest test_codes list the model draws
MaxCodes == 2

\* The codes a reply may carry
Codes ==
    {"ugi", "VPCH", "ugi+vpch", "general", "buffer", "error", "xyz", NonStringCode}

CodeLists == UNION {[1 .. n -> Codes] : n \in 0 .. MaxCodes}

\* The bodies of a reply: no JSON at all, JSON that is no object, or an
\* object with or without the status and test_codes keys
Bodies ==
    {[kind |-> "invalid"], [kind |-> "list"], [kind |-> "dict"],
     [kind |-> "dict", status |-> "success"],
     [kind |-> "dict", status |-> "error", test_codes |-> <<>>]}
    \cup {Success(codes) : codes \in CodeLists}

\* What can happen to the POST of get_tube_info_async
Exchanges ==
    {[kind |-> "timeout"], [kind |-> "network_error"]}
    \cup [kind : {"http"}, status_code : {HttpOk, 500}, body : Bodies]

\* get_tube_info_async: the decoded object on status 200; None on any other
\* status and on every exception, those of response.json() and of
\* result.get(...) on a body that is no object included
GetTubeInfo(x) ==
    IF x.kind # "http" THEN NoResponse
    ELSE IF x.status_code # HttpOk THEN NoResponse
    ELSE IF x.body.kind # "dict" THEN NoResponse
    ELSE x.body

\* parse_test_type raises (AttributeError) on a first code that is no string
ParseRaises(resp) ==
    /\ resp.kind = "dict"
    /\ Get(resp, "status", None) = "success"
    /\ Get(resp, "test_codes", <<>>) # <<>>
    /\ resp.test_codes[1] = NonStringCode

\* parse_test_type that looks at the last code of the list
ParseTestTypeLastCode(resp) ==
    IF resp.kind = "none" THEN "error"
    ELSE IF Get(resp, "status", None) # "success" THEN "error"
    ELSE IF Get(resp, "test_codes", <<>>) = <<>> THEN "unknown"
    ELSE LET test_code == Lower(resp.test_codes[Len(resp.test_codes)])
         IN  IF test_code \in {"ugi", "vpch", "ugi+vpch", "general", "buffer", "error"}
             THEN test_code
             ELSE "unknown"

ParseTestType(resp) ==
    IF resp.kind = "none" THEN "error"
    ELSE IF Get(resp, "status", None) # "success" THEN "error"
    ELSE IF Get(resp, "test_codes", <<>>) = <<>> THEN "unknown"
    ELSE LET test_code == Lower(resp.test_codes[1])
         IN  IF test_code \in {"ugi", "vpch", "ugi+vpch", "general", "buffer", "error"}
             THEN test_code
             ELSE "unknown"

\* process_tube_async on its own: the request, parse_test_type, the TubeInfo
\* and add_tube when the type has a rack
ProcessTube ==
    /\ parsed.st = "none"
    /\ LET response == GetTubeInfo(exchange)
       IN  IF ParseRaises(response)
           THEN /\ parsed' = [st |-> "raised"]
                /\ UNCHANGED <<racks, tubes, rack_positions, last_add>>
           ELSE LET test_type == ParseTestType(response)
                IN  /\ parsed' = [st |-> "item", test_type |-> test_type]
                    /\ IF Supported(test_type)
                       THEN AddTubeEffect(1, test_type)
                       ELSE UNCHANGED <<racks, tubes, rack_positions, last_add>>
    /\ UNCHANGED <<test_types, rack_rows, rack_cols, ctor, exchange, move>>
    /\ UNCHANGED <<scanVars, sortVars, ctlVars>>

----------------------------------------------------------------------------
(* scan_and_request_parallel *)

\* Rows scanned per pass (range(10) in the source) and the tubes the scanner
\* can read off the source pallet
ScanRows == 2
MaxReadable == 2

\* Columns read by one scanner trigger
GroupSize == 3

\* main_async: TestMatrix(test_types=[UGI, VPCH], rack_capacity=(10, 6))
MainRackRows == 10
MainRackCols == 6

GroupCols == 0 .. GroupSize - 1

EmptyPass == [r \in 0 .. ScanRows - 1 |-> [c \in GroupCols |-> 0]]

\* The barcode of the tube standing at a cell of the source pallet
BarcodeAt(row, col) == 1 + row * (2 * GroupSize) + col

\* The tasks created after one row was scanned, in column order: one per cell
\* that holds a barcode (barcode != 0 and barcode != 'NoRead'); added is the
\* result of the task's add_tube call, once made
RowTasks(data_row, row, col_offset) ==
    LET cols == SelectSeq(<<0, 1, 2>>, LAMBDA c : data_row[c] # 0)
    IN  [i \in 1 .. Len(cols) |->
            [barcode |-> data_row[cols[i]], row |-> row,
             col |-> cols[i] + col_offset, st |-> "pending", added |-> FALSE]]

TaskComplete(t) == t.st \in {"done", "raised"}

\* asyncio.gather(*tasks) that returns at the first exception
GatherDoneFailFast ==
    \/ \A i \in DOMAIN tasks : TaskComplete(tasks[i])
    \/ \E i \in DOMAIN tasks : tasks[i].st = "raised"

\* asyncio.gather(*tasks, return_exceptions=True) has returned
GatherDone == \A i \in DOMAIN tasks : TaskComplete(tasks[i])

\* The scan coroutine is suspended in gather: the only await it has, so the
\* only time the event loop runs a task
Joining == scan_pc \in {"join", "join_fail"}

\* scan_three_tubes_to_array(..., max_attempts=10)
MaxAttempts == 10

\* The scanner.scan calls of one scan_three_tubes_to_array that can name a
\* cell; every later call answers 'NoRead'
MaxScans == 2

\* What the scanner answers on the calls of one scan_three_tubes_to_array:
\* reads[k] is the set of cells the k-th answer names. A cell named for the
\* first time carries the barcode of its tube, a cell named again carries
\* another token (a second reading that differs)
ScanResults(reads, row, col_offset) ==
    [k \in 1 .. MaxAttempts |->
        [c \in GroupCols |->
            IF k > Len(reads) \/ c \notin reads[k] THEN 0
            ELSE IF \E j \in 1 .. k - 1 : c \in reads[j]
                 THEN 0 - BarcodeAt(row, c + col_offset)
                 ELSE BarcodeAt(row, c + col_offset)]]

\* scan_three_tubes_to_array that records every token it is given
RECURSIVE ScanLoopOverwrite(_, _, _, _)
ScanLoopOverwrite(target_row, tubes_scanned, attempts, results) ==
    IF tubes_scanned < GroupSize /\ attempts < MaxAttempts
    THEN LET result == results[attempts + 1]
             named == {c \in GroupCols : result[c] # 0}
         IN  ScanLoopOverwrite(
                 [c \in GroupCols |-> IF c \in named THEN result[c] ELSE target_row[c]],
                 tubes_scanned + Cardinality(named), attempts + 1, results)
    ELSE [row |-> target_row, attempts |-> attempts]

\* scan_three_tubes_to_array: the loop runs while fewer than three cells were
\* read and attempts remain; a token is recorded in a cell that still holds 0
RECURSIVE ScanLoop(_, _, _, _)
ScanLoop(target_row, tubes_scanned, attempts, results) ==
    IF tubes_scanned < GroupSize /\ attempts < MaxAttempts
    THEN LET result == results[attempts + 1]
             fresh == {c \in GroupCols : target_row[c] = 0 /\ result[c] # 0}
         IN  ScanLoop(
                 [c \in GroupCols |-> IF c \in fresh THEN result[c] ELSE target_row[c]],
                 tubes_scanned + Cardinality(fresh), attempts + 1, results)
    ELSE [row |-> target_row, attempts |-> attempts]

\* scan_three_tubes_to_array on row scan_row of a pass, for every sequence of
\* scanner answers that leaves at most MaxReadable cells read in all: the row
\* of the target array and the number of scanner.scan calls
ScanOutcomes(target_row, col_offset) ==
    {out \in {ScanLoop(target_row, 0, 0, ScanResults(reads, scan_row, col_offset)) :
                 reads \in [1 .. MaxScans -> SUBSET GroupCols]} :
        Len(tasks) + Cardinality({c \in GroupCols : out.row[c] # 0}) <= MaxReadable}

\* move_robot_by_registers to the first position
ScanMoveFirst ==
    /\ scan_pc = "start"
    /\ \E ok \in BOOLEAN :
          scan_pc' = IF ok THEN "p1_scan" ELSE "returned"
    /\ UNCHANGED <<scan_row, first_pass_data, second_pass_data, tasks, triggers>>
    /\ UNCHANGED <<allocVars, sortVars, ctlVars, callVars>>

ScanPass1Row ==
    /\ scan_pc = "p1_scan"
    /\ \E out \in ScanOutcomes(first_pass_data[scan_row], 0) :
          /\ first_pass_data' = [first_pass_data EXCEPT ![scan_row] = out.row]
          /\ tasks' = tasks \o RowTasks(out.row, scan_row, 0)
          /\ triggers' = out.attempts
    /\ scan_pc' = IF scan_row < ScanRows - 1 THEN "p1_move" ELSE "p2_move"
    /\ UNCHANGED <<scan_row, second_pass_data>>
    /\ UNCHANGED <<allocVars, sortVars, ctlVars, callVars>>

\* move to the next row of the first pass; a failure breaks the loop
ScanPass1Move ==
    /\ scan_pc = "p1_move"
    /\ \E ok \in BOOLEAN :
          /\ scan_pc' = IF ok THEN "p1_scan" ELSE "p2_move"
          /\ scan_row' = IF ok THEN scan_row + 1 ELSE scan_row
    /\ UNCHANGED <<first_pass_data, second_pass_data, tasks, triggers>>
    /\ UNCHANGED <<allocVars, sortVars, ctlVars, callVars>>

\* move to the second-pass position; on failure the launched tasks are
\* awaited and the function returns
ScanMoveSecond ==
    /\ scan_pc = "p2_move"
    /\ \E ok \in BOOLEAN :
          scan_pc' = IF ok THEN "p2_scan" ELSE "join_fail"
    /\ scan_row' = 0
    /\ UNCHANGED <<first_pass_data, second_pass_data, tasks, triggers>>
    /\ UNCHANGED <<allocVars, sortVars, ctlVars, callVars>>

ScanPass2Row ==
    /\ scan_pc = "p2_scan"
    /\ \E out \in ScanOutcomes(second_pass_data[scan_row], GroupSize) :
          /\ second_pass_data' = [second_pass_data EXCEPT ![scan_row] = out.row]
          /\ tasks' = tasks \o RowTasks(out.row, scan_row, GroupSize)
          /\ triggers' = out.attempts
    /\ scan_pc' = IF scan_row < ScanRows - 1 THEN "p2_move_row" ELSE "join"
    /\ UNCHANGED <<scan_row, first_pass_data>>
    /\ UNCHANGED <<allocVars, sortVars, ctlVars, callVars>>

ScanPass2Move ==
    /\ scan_pc = "p2_move_row"
    /\ \E ok \in BOOLEAN :
          /\ scan_pc' = IF ok THEN "p2_scan" ELSE "join"
          /\ scan_row' = IF ok THEN scan_row + 1 ELSE scan_row
    /\ UNCHANGED <<first_pass_data, second_pass_data, tasks, triggers>>
    /\ UNCHANGED <<allocVars, sortVars, ctlVars, callVars>>

\* process_tube_async up to its await: the request is sent
TaskStart(i) ==
    /\ Joining
    /\ tasks[i].st = "pending"
    /\ tasks' = [tasks EXCEPT ![i].st = "awaiting"]
    /\ UNCHANGED <<scan_pc, scan_row, first_pass_data, second_pass_data, triggers>>
    /\ UNCHANGED <<allocVars, sortVars, ctlVars, callVars>>

\* process_tube_async whose exception cancels the tasks still running
TaskFinishCancelsOthers(i) ==
    /\ Joining
    /\ tasks[i].st = "awaiting"
    /\ \E resp \in TaskResponses :
          IF ParseRaises(resp)
          THEN /\ tasks' = [j \in DOMAIN tasks |->
                             IF j = i THEN [tasks[j] EXCEPT !.st = "raised"]
                             ELSE IF TaskComplete(tasks[j]) THEN tasks[j]
                             ELSE [tasks[j] EXCEPT !.st = "cancelled"]]
               /\ UNCHANGED <<racks, tubes, rack_positions, last_add>>
          ELSE LET test_type == ParseTestType(resp)
               IN  IF Supported(test_type)
                   THEN /\ AddTubeEffect(tasks[i].barcode, test_type)
                        /\ tasks' = [tasks EXCEPT ![i].st = "done",
                                                  ![i].added = last_add'.ok]
                   ELSE /\ tasks' = [tasks EXCEPT ![i].st = "done"]
                        /\ UNCHANGED <<racks, tubes, rack_positions, last_add>>
    /\ UNCHANGED <<test_types, rack_rows, rack_cols>>
    /\ UNCHANGED <<scan_pc, scan_row, first_pass_data, second_pass_data, triggers>>
    /\ UNCHANGED <<sortVars, ctlVars, callVars>>

\* process_tube_async from its await to its end: parse_test_type, then
\* add_tube when the type has a rack
TaskFinish(i) ==
    /\ Joining
    /\ tasks[i].st = "awaiting"
    /\ \E resp \in TaskResponses :
          IF ParseRaises(resp)
          THEN /\ tasks' = [tasks EXCEPT ![i].st = "raised"]
               /\ UNCHANGED <<racks, tubes, rack_positions, last_add>>
          ELSE LET test_type == ParseTestType(resp)
               IN  IF Supported(test_type)
                   THEN /\ AddTubeEffect(tasks[i].barcode, test_type)
                        /\ tasks' = [tasks EXCEPT ![i].st = "done",
                                                  ![i].added = last_add'.ok]
                   ELSE /\ tasks' = [tasks EXCEPT ![i].st = "done"]
                        /\ UNCHANGED <<racks, tubes, rack_positions, last_add>>
    /\ UNCHANGED <<test_types, rack_rows, rack_cols>>
    /\ UNCHANGED <<scan_pc, scan_row, first_pass_data, second_pass_data, triggers>>
    /\ UNCHANGED <<sortVars, ctlVars, callVars>>

\* gather returns and the function returns the two arrays
ScanReturn ==
    /\ Joining
    /\ GatherDone
    /\ scan_pc' = "returned"
    /\ UNCHANGED <<scan_row, first_pass_data, second_pass_data, tasks, triggers>>
    /\ UNCHANGED <<allocVars, sortVars, ctlVars, callVars>>

ScanInit ==
    /\ scan_pc = "start"
    /\ scan_row = 0
    /\ first_pass_data = EmptyPass
    /\ second_pass_data = EmptyPass
    /\ tasks = <<>>
    /\ triggers = 0

----------------------------------------------------------------------------
(* process_tubes_by_test_matrix: the loop over test_matrix.tubes *)

\* main_async: the keys of dest_positions
DestPositions == {0, 1}

\* The loop's current tube
CurrentTube == tubes[sort_idx]

\* The move_robot_by_registers calls of pickup_tube and place_tube: the
\* function that makes the call (by), the target (the pickup or the
\* destination cell and the height) and the step that follows each result;
\* move_robot_by_registers catches every exception and returns False.
\* "next" is the loop's next iteration: a failed pickup is followed by
\* continue, a failed place by the compensation
MoveStepsIgnoreFailure ==
    [pick_safe  |-> [by |-> "pickup_tube", cmd |-> <<"move", "pickup", "z_safe">>,
                     ok |-> "pick_on",    failed |-> "next"],
     pick_down  |-> [by |-> "pickup_tube", cmd |-> <<"move", "pickup", "z_pickup">>,
                     ok |-> "pick_off",   failed |-> "pick_off"],
     pick_up    |-> [by |-> "pickup_tube", cmd |-> <<"move", "pickup", "z_up">>,
                     ok |-> "place_safe", failed |-> "place_safe"],
     place_safe |-> [by |-> "place_tube",  cmd |-> <<"move", "dest", "z_safe">>,
                     ok |-> "place_down", failed |-> "comp_off2"],
     place_down |-> [by |-> "place_tube",  cmd |-> <<"move", "dest", "z_drop">>,
                     ok |-> "place_on1",  failed |-> "comp_off2"]]

MoveSteps ==
    [pick_safe  |-> [by |-> "pickup_tube", cmd |-> <<"move", "pickup", "z_safe">>,
                     ok |-> "pick_on",    failed |-> "next"],
     pick_down  |-> [by |-> "pickup_tube", cmd |-> <<"move", "pickup", "z_pickup">>,
                     ok |-> "pick_off",   failed |-> "pick_abort"],
     pick_up    |-> [by |-> "pickup_tube", cmd |-> <<"move", "pickup", "z_up">>,
                     ok |-> "place_safe", failed |-> "pick_abort"],
     place_safe |-> [by |-> "place_tube",  cmd |-> <<"move", "dest", "z_safe">>,
                     ok |-> "place_down", failed |-> "comp_off2"],
     place_down |-> [by |-> "place_tube",  cmd |-> <<"move", "dest", "z_drop">>,
                     ok |-> "place_on1",  failed |-> "comp_off2"]]

\* The set_DO calls of pickup_tube (pick_off follows the one-second hold),
\* place_tube, the compensation after a failed place (comp_) and the except
\* handler (exc_), each with the function that makes it and the step that
\* follows when the call returns and when it raises. An exception inside the
\* try block goes to the handler; one inside the handler is swallowed
\* (except: pass) and the loop goes on
DoStepsNoCompensation ==
    [pick_on    |-> [by |-> "pickup_tube", do_id |-> 2, value |-> TRUE,
                     ok |-> "pick_down",  raised |-> "exc_off2"],
     pick_abort |-> [by |-> "pickup_tube", do_id |-> 2, value |-> FALSE,
                     ok |-> "next",       raised |-> "exc_off2"],
     pick_off   |-> [by |-> "pickup_tube", do_id |-> 2, value |-> FALSE,
                     ok |-> "pick_up",    raised |-> "exc_off2"],
     place_on1  |-> [by |-> "place_tube",  do_id |-> 1, value |-> TRUE,
                     ok |-> "place_off1", raised |-> "exc_off2"],
     place_off1 |-> [by |-> "place_tube",  do_id |-> 1, value |-> FALSE,
                     ok |-> "next",       raised |-> "exc_off2"],
     comp_off2  |-> [by |-> "loop",        do_id |-> 2, value |-> FALSE,
                     ok |-> "next",       raised |-> "exc_off2"],
     comp_on1   |-> [by |-> "loop",        do_id |-> 1, value |-> TRUE,
                     ok |-> "comp_off1",  raised |-> "exc_off2"],
     comp_off1  |-> [by |-> "loop",        do_id |-> 1, value |-> FALSE,
                     ok |-> "next",       raised |-> "exc_off2"],
     exc_off2   |-> [by |-> "handler",     do_id |-> 2, value |-> FALSE,
                     ok |-> "exc_on1",    raised |-> "next"],
     exc_on1    |-> [by |-> "handler",     do_id |-> 1, value |-> TRUE,
                     ok |-> "exc_off1",   raised |-> "next"],
     exc_off1   |-> [by |-> "handler",     do_id |-> 1, value |-> FALSE,
                     ok |-> "next",       raised |-> "next"]]

DoSteps ==
    [pick_on    |-> [by |-> "pickup_tube", do_id |-> 2, value |-> TRUE,
                     ok |-> "pick_down",  raised |-> "exc_off2"],
     pick_abort |-> [by |-> "pickup_tube", do_id |-> 2, value |-> FALSE,
                     ok |-> "next",       raised |-> "exc_off2"],
     pick_off   |-> [by |-> "pickup_tube", do_id |-> 2, value |-> FALSE,
                     ok |-> "pick_up",    raised |-> "exc_off2"],
     place_on1  |-> [by |-> "place_tube",  do_id |-> 1, value |-> TRUE,
                     ok |-> "place_off1", raised |-> "exc_off2"],
     place_off1 |-> [by |-> "place_tube",  do_id |-> 1, value |-> FALSE,
                     ok |-> "next",       raised |-> "exc_off2"],
     comp_off2  |-> [by |-> "loop",        do_id |-> 2, value |-> FALSE,
                     ok |-> "comp_on1",   raised |-> "exc_off2"],
     comp_on1   |-> [by |-> "loop",        do_id |-> 1, value |-> TRUE,
                     ok |-> "comp_off1",  raised |-> "exc_off2"],
     comp_off1  |-> [by |-> "loop",        do_id |-> 1, value |-> FALSE,
                     ok |-> "next",       raised |-> "exc_off2"],
     exc_off2   |-> [by |-> "handler",     do_id |-> 2, value |-> FALSE,
                     ok |-> "exc_on1",    raised |-> "next"],
     exc_on1    |-> [by |-> "handler",     do_id |-> 1, value |-> TRUE,
                     ok |-> "exc_off1",   raised |-> "next"],
     exc_off1   |-> [by |-> "handler",     do_id |-> 1, value |-> FALSE,
                     ok |-> "next",       raised |-> "next"]]

\* A command of the current iteration as the log records it: who issued it,
\* what it was and whether it succeeded (a move returned True, a set_DO call
\* returned)
SetDO(do_id, value) == <<"set_DO", do_id, value>>

\* A loop that ends (break) where the source goes on (continue) after a
\* failure
GotoBreakOnFailure(step) ==
    IF step = "next"
    THEN IF sort_pc = "place_off1"
         THEN sort_pc' = "item" /\ sort_idx' = sort_idx + 1
         ELSE sort_pc' = "done" /\ sort_idx' = sort_idx
    ELSE sort_pc' = step /\ sort_idx' = sort_idx

\* The loop's control goes to a step of the current iteration or to the next
\* iteration
Goto(step) ==
    IF step = "next"
    THEN sort_pc' = "item" /\ sort_idx' = sort_idx + 1
    ELSE sort_pc' = step /\ sort_idx' = sort_idx

\* process_tubes_by_test_matrix is called, after the scan phase and its
\* add_tube calls
SortBegin ==
    /\ sort_pc = "idle"
    /\ sort_pc' = "item"
    /\ sort_idx' = 1
    /\ UNCHANGED <<picked, placed, do_out, cmds>>
    /\ UNCHANGED <<allocVars, scanVars, ctlVars, callVars>>

\* The head of one iteration: a tube whose rack has no position is skipped,
\* any other is handed to pickup_tube
SortItem ==
    /\ sort_pc = "item"
    /\ sort_idx <= Len(tubes)
    /\ IF CurrentTube.destination_rack \notin DestPositions
       THEN /\ Goto("next")
            /\ UNCHANGED picked
       ELSE /\ picked' = Append(picked, CurrentTube.barcode)
            /\ Goto("pick_safe")
    /\ cmds' = <<>>
    /\ UNCHANGED <<placed, do_out>>
    /\ UNCHANGED <<allocVars, scanVars, ctlVars, callVars>>

\* One move of pickup_tube or place_tube
SortMove ==
    /\ sort_pc \in DOMAIN MoveSteps
    /\ LET step == MoveSteps[sort_pc]
       IN  \E ok \in BOOLEAN :
              /\ cmds' = Append(cmds, [by |-> step.by, cmd |-> step.cmd,
                                       ok |-> ok])
              /\ Goto(IF ok THEN step.ok ELSE step.failed)
    /\ UNCHANGED <<picked, placed, do_out>>
    /\ UNCHANGED <<allocVars, scanVars, ctlVars, callVars>>

\* One set_DO call: the output is written, or the call raises and the output
\* keeps its value. place_tube returns True after its last set_DO
SortSetDO ==
    /\ sort_pc \in DOMAIN DoSteps
    /\ LET step == DoSteps[sort_pc]
       IN  \E raised \in BOOLEAN :
              /\ cmds' = Append(cmds, [by |-> step.by,
                                       cmd |-> SetDO(step.do_id, step.value),
                                       ok |-> ~raised])
              /\ IF raised
                 THEN /\ Goto(step.raised)
                      /\ UNCHANGED <<placed, do_out>>
                 ELSE /\ do_out' = [do_out EXCEPT ![step.do_id] = step.value]
                      /\ placed' = IF sort_pc = "place_off1"
                                   THEN Append(placed, CurrentTube)
                                   ELSE placed
                      /\ Goto(step.ok)
    /\ UNCHANGED picked
    /\ UNCHANGED <<allocVars, scanVars, ctlVars, callVars>>

\* The loop is over
SortEnd ==
    /\ sort_pc = "item"
    /\ sort_idx > Len(tubes)
    /\ sort_pc' = "done"
    /\ cmds' = <<>>
    /\ UNCHANGED <<sort_idx, picked, placed, do_out>>
    /\ UNCHANGED <<allocVars, scanVars, ctlVars, callVars>>

SortInit ==
    /\ sort_pc = "idle"
    /\ sort_idx = 0
    /\ picked = <<>>
    /\ placed = <<>>
    /\ do_out = [do_id \in {1, 2} |-> FALSE]
    /\ cmds = <<>>

----------------------------------------------------------------------------
(* RobotController: the state dict, the state file and the operations *)

\* RobotController.__init__ / reset: the default state
DefaultState ==
    [command |-> "idle", running |-> FALSE, paused |-> FALSE,
     rack_to_change |-> None, current_pallet |-> 0,
     rack_replaced |-> FALSE, pause_requested |-> FALSE]

Fields == DOMAIN DefaultState

\* Destination tags a rack replacement is asked for
RackTags == {"ugi", "vpch"}

\* load_state: self.state after a getter took the lock and loaded the file
\* (controller p keeps its own copy when there is no file)
Loaded(p) == IF file # <<>> THEN file[1] ELSE mem[p]

\* The setters, as changes of the state dict
SetCommand(s, command) == [s EXCEPT !.command = command]

SetRunning(s, value) == [s EXCEPT !.running = value]

SetPauseRequestedAndPaused(s) ==
    [s EXCEPT !.pause_requested = TRUE, !.paused = TRUE]

SetPauseRequested(s) == [s EXCEPT !.pause_requested = TRUE]

SetPausedKeepRequest(s, value) == [s EXCEPT !.paused = value]

SetPaused(s, value) ==
    IF value
    THEN [s EXCEPT !.paused = TRUE, !.pause_requested = FALSE]
    ELSE [s EXCEPT !.paused = FALSE]

SetRackToChangeKeepAck(s, rack_type) == [s EXCEPT !.rack_to_change = rack_type]

SetRackToChange(s, rack_type) ==
    [s EXCEPT !.rack_to_change = rack_type, !.rack_replaced = FALSE]

ConfirmRackReplaced(s) ==
    [s EXCEPT !.rack_replaced = TRUE, !.rack_to_change = None]

\* A getter: load_state, nothing written
ReadState(p) ==
    /\ mem' = [mem EXCEPT ![p] = Loaded(p)]
    /\ UNCHANGED file

\* A setter's end: the dict is kept and save_state dumps the whole of it
SaveState(p, s) ==
    /\ mem' = [mem EXCEPT ![p] = s]
    /\ file' = <<s>>

\* History kept for the properties: nothing requested, moved or returned yet
\* and no rack replacement asked for (wait_tag), acknowledged since it was
\* asked for (acked) or waited for to the end (wait_ret)
NoCheckpoint ==
    [marked |-> FALSE, stopped |-> FALSE, reqs |-> 0, moves |-> 0,
     pose |-> FALSE, saw |-> FALSE, cp_moves |-> 0,
     move_result |-> "none", polls |-> 0,
     ret |-> "none", ret_stopped |-> FALSE,
     wait_tag |-> None, acked |-> {}, wait_ret |-> "none"]

----------------------------------------------------------------------------
(* server.py: the endpoints and the run threads, all in the process "web" *)

\* Run threads one specification lets run_program start at a time, and the
\* pause requests it accepts
MaxThreads == 2
MaxPauseReqs == 2

Live(t) == thread_pc[t] \notin {"off", "done"}
RunLive == \E t \in DOMAIN thread_pc : Live(t)
FreeSlots == {t \in DOMAIN thread_pc : ~Live(t)}
FreeSlot == CHOOSE t \in FreeSlots : \A u \in FreeSlots : t <= u

Request(op, result, before, after) ==
    [op |-> op, result |-> result, live |-> RunLive,
     before |-> before, after |-> after, arg |-> None]

\* start_program: refuse when is_running(), else reset(),
\* set_command('start') and a new thread running run_program
StartOutcome(s) == IF s.running THEN "already_running" ELSE "ok"

StartProgram ==
    LET s == Loaded("web")
    IN  IF StartOutcome(s) = "ok"
        THEN LET after == SetCommand(DefaultState, "start")
             IN  /\ FreeSlots # {}
                 /\ SaveState("web", after)
                 /\ thread_pc' = [thread_pc EXCEPT ![FreeSlot] = "run"]
                 /\ last_req' = Request("start", "ok", s, after)
                 /\ chk' = [chk EXCEPT !.marked = FALSE, !.stopped = FALSE]
                 /\ UNCHANGED <<written, allocVars, scanVars, sortVars, callVars>>
        ELSE /\ ReadState("web")
             /\ last_req' = Request("start", StartOutcome(s), s, s)
             /\ UNCHANGED <<thread_pc, chk, written, allocVars, scanVars, sortVars, callVars>>

\* stop_program
StopOutcome(s) == IF ~s.running THEN "not_running" ELSE "ok"

StopProgram ==
    LET s == Loaded("web")
    IN  IF StopOutcome(s) = "ok"
        THEN LET after == SetPaused(SetRunning(SetCommand(s, "stop"), FALSE), FALSE)
             IN  /\ SaveState("web", after)
                 /\ last_req' = Request("stop", "ok", s, after)
                 /\ chk' = [chk EXCEPT !.stopped = TRUE]
                 /\ UNCHANGED <<thread_pc, written, allocVars, scanVars, sortVars, callVars>>
        ELSE /\ ReadState("web")
             /\ last_req' = Request("stop", StopOutcome(s), s, s)
             /\ UNCHANGED <<thread_pc, chk, written, allocVars, scanVars, sortVars, callVars>>

\* pause_program
PauseOutcome(s) == IF ~s.running THEN "not_running" ELSE "ok"

PauseProgram ==
    LET s == Loaded("web")
    IN  IF PauseOutcome(s) = "ok"
        THEN LET after == SetCommand(SetPauseRequested(s), "pause")
             IN  /\ chk.reqs < MaxPauseReqs
                 /\ SaveState("web", after)
                 /\ last_req' = Request("pause", "ok", s, after)
                 /\ chk' = [chk EXCEPT !.reqs = @ + 1]
                 /\ UNCHANGED <<thread_pc, written, allocVars, scanVars, sortVars, callVars>>
        ELSE /\ ReadState("web")
             /\ last_req' = Request("pause", PauseOutcome(s), s, s)
             /\ UNCHANGED <<thread_pc, chk, written, allocVars, scanVars, sortVars, callVars>>

\* resume_program
ResumeOutcomeNoPausedCheck(s) == IF ~s.running THEN "not_running" ELSE "ok"

ResumeOutcome(s) ==
    IF ~s.running THEN "not_running"
    ELSE IF ~s.paused THEN "not_paused"
    ELSE "ok"

ResumeProgram ==
    LET s == Loaded("web")
    IN  IF ResumeOutcome(s) = "ok"
        THEN LET after == SetCommand(SetPaused(s, FALSE), "resume")
             IN  /\ SaveState("web", after)
                 /\ last_req' = Request("resume", "ok", s, after)
                 /\ UNCHANGED <<thread_pc, chk, written, allocVars, scanVars, sortVars, callVars>>
        ELSE /\ ReadState("web")
             /\ last_req' = Request("resume", ResumeOutcome(s), s, s)
             /\ UNCHANGED <<thread_pc, chk, written, allocVars, scanVars, sortVars, callVars>>

\* change_rack: the request names a rack type; the handler calls
\* confirm_rack_replaced(), whatever the type
ChangeRack ==
    \E rack_type \in RackTags :
        LET s == mem["web"]
            after == ConfirmRackReplaced(s)
        IN  /\ SaveState("web", after)
            /\ last_req' = [Request("change_rack", "ok", s, after)
                               EXCEPT !.arg = rack_type]
            /\ chk' = IF chk.wait_tag # None
                      THEN [chk EXCEPT !.acked = @ \cup {rack_type}]
                      ELSE chk
            /\ UNCHANGED <<thread_pc, written, allocVars, scanVars, sortVars, callVars>>

\* run_program -> main_async: a robot command sequence starts
\* (move_robot_by_registers sets the registers and starts the program) ...
BeginCommand(t) ==
    /\ thread_pc[t] = "run"
    /\ thread_pc' = [thread_pc EXCEPT ![t] = "motion"]
    /\ UNCHANGED <<file, mem, last_req, chk, written, allocVars, scanVars, sortVars, callVars>>

\* ... and ends (wait_for_robot_idle returned)
EndCommand(t) ==
    /\ thread_pc[t] = "motion"
    /\ thread_pc' = [thread_pc EXCEPT ![t] = "run"]
    /\ UNCHANGED <<file, mem, last_req, chk, written, allocVars, scanVars, sortVars, callVars>>

\* main_async is over; run_program's finally: controller.set_running(False)
FinishRun(t) ==
    /\ thread_pc[t] = "run"
    /\ SaveState("web", SetRunning(mem["web"], FALSE))
    /\ thread_pc' = [thread_pc EXCEPT ![t] = "done"]
    /\ UNCHANGED <<last_req, chk, written, allocVars, scanVars, sortVars, callVars>>

----------------------------------------------------------------------------
(* The orchestrator's side of RobotController: the operations an            *)
(* orchestrator thread calls on the controller of its process. main.py      *)
(* calls none of them; SpecCtl runs them as the public operations they are. *)

\* set_running(True): the orchestrator marks its run as started
OrchSetRunning(t) ==
    /\ thread_pc[t] = "run"
    /\ ~chk.marked
    /\ SaveState("web", SetRunning(mem["web"], TRUE))
    /\ chk' = [chk EXCEPT !.marked = TRUE]
    /\ UNCHANGED <<thread_pc, last_req, written, allocVars, scanVars, sortVars, callVars>>

\* check_pause(cobot, pause_position) is entered: is_pause_requested(), and
\* on a request the move to the pause pose is commanded when a robot and a
\* pose were passed
CpBegin(t) ==
    /\ thread_pc[t] = "run"
    /\ chk.moves <= MaxPauseReqs
    /\ ReadState("web")
    /\ \E pose \in BOOLEAN :
          LET saw == Loaded("web").pause_requested
              moving == saw /\ pose
          IN  /\ thread_pc' = [thread_pc EXCEPT ![t] =
                     IF moving THEN "cp_move"
                     ELSE IF saw THEN "cp_pause"
                     ELSE "cp_check"]
              /\ chk' = [chk EXCEPT !.pose = pose, !.saw = saw,
                                    !.cp_moves = IF moving THEN 1 ELSE 0,
                                    !.moves = IF moving THEN @ + 1 ELSE @,
                                    !.move_result = "none", !.polls = 0,
                                    !.ret = "none", !.ret_stopped = FALSE]
    /\ UNCHANGED <<last_req, written, allocVars, scanVars, sortVars, callVars>>

\* check_pause that gives up when the move to the pause pose fails
CpMoveEndFailureAborts(t) ==
    /\ thread_pc[t] = "cp_move"
    /\ \E outcome \in {"ok", "failed", "raised"} :
          /\ thread_pc' = [thread_pc EXCEPT ![t] =
                              IF outcome = "ok" THEN "cp_pause" ELSE "run"]
          /\ chk' = [chk EXCEPT !.move_result = outcome]
    /\ UNCHANGED <<file, mem, last_req, written, allocVars, scanVars, sortVars, callVars>>

\* move_robot_by_registers to the pause pose is over: done, failed or raised,
\* check_pause goes on alike
CpMoveEnd(t) ==
    /\ thread_pc[t] = "cp_move"
    /\ thread_pc' = [thread_pc EXCEPT ![t] = "cp_pause"]
    /\ \E outcome \in {"ok", "failed", "raised"} :
          chk' = [chk EXCEPT !.move_result = outcome]
    /\ UNCHANGED <<file, mem, last_req, written, allocVars, scanVars, sortVars, callVars>>

\* set_paused(True)
CpSetPaused(t) ==
    /\ thread_pc[t] = "cp_pause"
    /\ SaveState("web", SetPaused(mem["web"], TRUE))
    /\ thread_pc' = [thread_pc EXCEPT ![t] = "cp_check"]
    /\ UNCHANGED <<last_req, chk, written, allocVars, scanVars, sortVars, callVars>>

\* if self.is_paused(): wait_for_pause_clear(), else return True
CpCheck(t) ==
    /\ thread_pc[t] = "cp_check"
    /\ ReadState("web")
    /\ IF Loaded("web").paused
       THEN /\ thread_pc' = [thread_pc EXCEPT ![t] = "cp_wait"]
            /\ chk' = [chk EXCEPT !.move_result = "none"]
       ELSE /\ thread_pc' = [thread_pc EXCEPT ![t] = "run"]
            /\ chk' = [chk EXCEPT !.ret = "continue", !.ret_stopped = chk.stopped,
                                  !.move_result = "none"]
    /\ UNCHANGED <<last_req, written, allocVars, scanVars, sortVars, callVars>>

\* Polls of wait_for_pause_clear that can find paused set before the timeout
\* (300 s) has elapsed for sure (600 sleeps of 0.5 s in the source)
MaxPausePolls == 2

\* wait_for_pause_clear: a poll that finds paused set with time left sleeps
CpSleep(t) ==
    /\ thread_pc[t] = "cp_wait"
    /\ ReadState("web")
    /\ Loaded("web").paused
    /\ chk.polls < MaxPausePolls
    /\ chk' = [chk EXCEPT !.polls = @ + 1]
    /\ UNCHANGED <<thread_pc, last_req, written, allocVars, scanVars, sortVars, callVars>>

\* wait_for_pause_clear whose loop has no timeout
CpPollNoTimeout(t) ==
    /\ thread_pc[t] = "cp_wait"
    /\ ~Loaded("web").paused
    /\ ReadState("web")
    /\ thread_pc' = [thread_pc EXCEPT ![t] = "cp_exit"]
    /\ UNCHANGED <<last_req, chk, written, allocVars, scanVars, sortVars, callVars>>

\* wait_for_pause_clear: the polling loop ends when is_paused() is false or
\* the timeout has elapsed
CpPoll(t) ==
    /\ thread_pc[t] = "cp_wait"
    /\ \E timed_out \in BOOLEAN : ~Loaded("web").paused \/ timed_out
    /\ ReadState("web")
    /\ thread_pc' = [thread_pc EXCEPT ![t] = "cp_exit"]
    /\ UNCHANGED <<last_req, chk, written, allocVars, scanVars, sortVars, callVars>>

\* wait_for_pause_clear returns not self.is_paused(); check_pause returns it
CpExit(t) ==
    /\ thread_pc[t] = "cp_exit"
    /\ ReadState("web")
    /\ thread_pc' = [thread_pc EXCEPT ![t] = "run"]
    /\ chk' = [chk EXCEPT
                  !.ret = IF Loaded("web").paused THEN "abort" ELSE "continue",
                  !.ret_stopped = chk.stopped]
    /\ UNCHANGED <<last_req, written, allocVars, scanVars, sortVars, callVars>>

\* wait_for_rack_replacement(rack_type) is entered: set_rack_to_change
WaitBegin(t) ==
    /\ thread_pc[t] = "run"
    /\ \E rack_type \in RackTags :
          /\ SaveState("web", SetRackToChange(mem["web"], rack_type))
          /\ chk' = [chk EXCEPT !.wait_tag = rack_type, !.acked = {},
                                !.wait_ret = "none"]
    /\ thread_pc' = [thread_pc EXCEPT ![t] = "w_poll"]
    /\ UNCHANGED <<last_req, written, allocVars, scanVars, sortVars, callVars>>

\* The polling loop ends when is_rack_replaced() is true or the timeout has
\* elapsed (a poll that goes on sleeping changes nothing)
WaitPoll(t) ==
    /\ thread_pc[t] = "w_poll"
    /\ ReadState("web")
    /\ \/ /\ Loaded("web").rack_replaced
          /\ thread_pc' = [thread_pc EXCEPT ![t] = "w_seen"]
       \/ /\ ~Loaded("web").rack_replaced
          /\ thread_pc' = [thread_pc EXCEPT ![t] = "w_timeout"]
    /\ UNCHANGED <<last_req, chk, written, allocVars, scanVars, sortVars, callVars>>

\* if self.is_rack_replaced(): return True, else return False
WaitExit(t) ==
    /\ thread_pc[t] \in {"w_seen", "w_timeout"}
    /\ ReadState("web")
    /\ thread_pc' = [thread_pc EXCEPT ![t] = "run"]
    /\ chk' = [chk EXCEPT
                  !.wait_ret = IF Loaded("web").rack_replaced THEN "true" ELSE "false",
                  !.wait_tag = None]
    /\ UNCHANGED <<last_req, written, allocVars, scanVars, sortVars, callVars>>

----------------------------------------------------------------------------
(* Two processes, each with its own RobotController, over the state file *)

Procs == {"web", "orch"}

\* A setter of controller p: the fields it assigns are the latest writes
StoreApply(p, after, fields) ==
    /\ SaveState(p, after)
    /\ written' = [f \in Fields |-> IF f \in fields THEN after[f] ELSE written[f]]
    /\ UNCHANGED <<thread_pc, last_req, chk, allocVars, scanVars, sortVars, callVars>>

\* is_running, is_paused, is_pause_requested, get_rack_to_change, ...
StoreRead(p) ==
    /\ ReadState(p)
    /\ UNCHANGED <<thread_pc, last_req, chk, written, allocVars, scanVars, sortVars, callVars>>

StoreSetRunning(p, value) ==
    StoreApply(p, SetRunning(mem[p], value), {"running"})

StoreSetPauseRequested(p) ==
    StoreApply(p, SetPauseRequested(mem[p]), {"pause_requested"})

StoreSetPaused(p, value) ==
    StoreApply(p, SetPaused(mem[p], value),
               IF value THEN {"paused", "pause_requested"} ELSE {"paused"})

StoreSetRackToChange(p, rack_type) ==
    StoreApply(p, SetRackToChange(mem[p], rack_type),
               {"rack_to_change", "rack_replaced"})

StoreConfirmRackReplaced(p) ==
    StoreApply(p, ConfirmRackReplaced(mem[p]), {"rack_to_change", "rack_replaced"})

StoreInit ==
    /\ file = <<>>
    /\ mem = [p \in Procs |-> DefaultState]
    /\ thread_pc = <<>>
    /\ last_req = [op |-> "none", result |-> "none", live |-> FALSE,
                   before |-> DefaultState, after |-> DefaultState, arg |-> None]
    /\ chk = NoCheckpoint
    /\ written = DefaultState

\* One server process: the state file was removed at start-up
ServerInit(threads) ==
    /\ file = <<>>
    /\ mem = [p \in {"web"} |-> DefaultState]
    /\ thread_pc = [t \in threads |-> "off"]
    /\ last_req = [op |-> "none", result |-> "none", live |-> FALSE,
                   before |-> DefaultState, after |-> DefaultState, arg |-> None]
    /\ chk = NoCheckpoint
    /\ written = DefaultState

----------------------------------------------------------------------------
(* move_robot_by_registers and wait_for_robot_idle (main.py), and the      *)
(* manipulator that runs the started program                               *)

\* The register values of the model
Coords == {0, 1}

\* The number of polls that fit into the timeout of wait_for_robot_idle
\* (timeout / check_interval in the source)
MaxIdlePolls == 3

ROBOT_IDLE == "RobotStatusEnum.ROBOT_IDLE"
ROBOT_BUSY == "RobotStatusEnum.ROBOT_BUSY"

\* No call made yet: the number registers hold 0 and the manipulator rests.
\* motion is the state of the motion that the last start_program commanded:
\* pending until the manipulator has begun to move, then moving, then finished
NoMove ==
    [pc |-> "idle", args |-> <<0, 0, 0>>, registers |-> <<0, 0, 0>>,
     motion |-> "none", polls |-> 0, status |-> "none", ret |-> "none",
     cause |-> "none"]

\* What get_robot_status()[1] reports: the manipulator is idle before it has
\* begun the commanded motion and after it has finished it
RobotStatus == IF move.motion = "moving" THEN ROBOT_BUSY ELSE ROBOT_IDLE

\* move_robot_by_registers(cobot, dx, dy, dz) is called while the manipulator
\* rests
MoveCall ==
    /\ move.pc \in {"idle", "returned"}
    /\ move.motion \in {"none", "finished"}
    /\ \E dx, dy, dz \in Coords :
          move' = [move EXCEPT !.pc = "reg1", !.args = <<dx, dy, dz>>,
                               !.motion = "none", !.polls = 0,
                               !.status = "none", !.ret = "none",
                               !.cause = "none"]
    /\ UNCHANGED <<allocVars, scanVars, sortVars, ctlVars>>
    /\ UNCHANGED <<ctor, exchange, parsed>>

\* The return of move_robot_by_registers with its value
MoveReturn(m, ret, cause) ==
    [m EXCEPT !.pc = "returned", !.ret = ret, !.cause = cause]

\* One of the three set_number_register calls: it writes the register, or it
\* raises (a failed assert, an SDK exception), which the except clause of
\* move_robot_by_registers turns into False
MoveSetRegister ==
    /\ move.pc \in {"reg1", "reg2", "reg3"}
    /\ LET id == CASE move.pc = "reg1" -> 1
                   [] move.pc = "reg2" -> 2
                   [] move.pc = "reg3" -> 3
       IN  \E raised \in BOOLEAN :
              move' = IF raised
                      THEN MoveReturn(move, "False", "exception")
                      ELSE [move EXCEPT
                              !.registers[id] = move.args[id],
                              !.pc = CASE id = 1 -> "reg2"
                                       [] id = 2 -> "reg3"
                                       [] id = 3 -> "start"]
    /\ UNCHANGED <<allocVars, scanVars, sortVars, ctlVars>>
    /\ UNCHANGED <<ctor, exchange, parsed>>

\* start_program: the program is started and the call returns, or it raises
MoveStartProgram ==
    /\ move.pc = "start"
    /\ \E raised \in BOOLEAN :
          move' = IF raised
                  THEN MoveReturn(move, "False", "exception")
                  ELSE [move EXCEPT !.pc = "wait", !.motion = "pending"]
    /\ UNCHANGED <<allocVars, scanVars, sortVars, ctlVars>>
    /\ UNCHANGED <<ctor, exchange, parsed>>

\* A wait that a raising status poll ends
MovePollRaiseEnds ==
    /\ move.pc = "wait"
    /\ move.polls < MaxIdlePolls
    /\ \E raised \in BOOLEAN :
          move' = IF raised
                  THEN MoveReturn([move EXCEPT !.status = "raised",
                                               !.polls = move.polls + 1],
                                  "False", "exception")
                  ELSE IF RobotStatus = ROBOT_IDLE
                  THEN MoveReturn([move EXCEPT !.status = ROBOT_IDLE],
                                  "True", "idle_poll")
                  ELSE [move EXCEPT !.status = RobotStatus,
                                    !.polls = move.polls + 1]
    /\ UNCHANGED <<allocVars, scanVars, sortVars, ctlVars>>
    /\ UNCHANGED <<ctor, exchange, parsed>>

\* One iteration of the loop of wait_for_robot_idle, entered while the timeout
\* has not elapsed: the status poll raises (caught and logged) or reports a
\* status; ROBOT_IDLE returns True, which move_robot_by_registers passes on;
\* otherwise the loop sleeps check_interval
MovePoll ==
    /\ move.pc = "wait"
    /\ move.polls < MaxIdlePolls
    /\ \E raised \in BOOLEAN :
          move' = IF raised
                  THEN [move EXCEPT !.status = "raised",
                                    !.polls = move.polls + 1]
                  ELSE IF RobotStatus = ROBOT_IDLE
                  THEN MoveReturn([move EXCEPT !.status = ROBOT_IDLE],
                                  "True", "idle_poll")
                  ELSE [move EXCEPT !.status = RobotStatus,
                                    !.polls = move.polls + 1]
    /\ UNCHANGED <<allocVars, scanVars, sortVars, ctlVars>>
    /\ UNCHANGED <<ctor, exchange, parsed>>

\* The loop condition fails: the timeout has elapsed, wait_for_robot_idle
\* returns False and so does move_robot_by_registers
MoveTimeout ==
    /\ move.pc = "wait"
    /\ move.polls >= MaxIdlePolls
    /\ move' = MoveReturn(move, "False", "timeout")
    /\ UNCHANGED <<allocVars, scanVars, sortVars, ctlVars>>
    /\ UNCHANGED <<ctor, exchange, parsed>>

\* The manipulator begins the motion of the started program
RobotBegin ==
    /\ move.motion = "pending"
    /\ move' = [move EXCEPT !.motion = "moving"]
    /\ UNCHANGED <<allocVars, scanVars, sortVars, ctlVars>>
    /\ UNCHANGED <<ctor, exchange, parsed>>

\* The manipulator reaches the target
RobotFinish ==
    /\ move.motion = "moving"
    /\ move' = [move EXCEPT !.motion = "finished"]
    /\ UNCHANGED <<allocVars, scanVars, sortVars, ctlVars>>
    /\ UNCHANGED <<ctor, exchange, parsed>>

----------------------------------------------------------------------------
(* The parts a specification does not run *)
ScanIdle ==
    /\ scan_pc = "idle"
    /\ scan_row = 0
    /\ first_pass_data = <<>>
    /\ second_pass_data = <<>>
    /\ tasks = <<>>
    /\ triggers = 0

CtlIdle == ServerInit({})

NoCall == [st |-> "none"]

CallIdle ==
    /\ ctor = NoCall
    /\ exchange = NoCall
    /\ parsed = NoCall
    /\ move = NoMove

AllocIdle == MatrixInit(<<"ugi", "vpch">>, 0, 0)

InitAlloc ==
    /\ \E types \in Configs, rows \in 1 .. MaxRows, cols \in 1 .. MaxCols :
          MatrixInit(types, rows, cols)
    /\ ScanIdle
    /\ SortInit
    /\ CallIdle
    /\ CtlIdle

NextAlloc == AddTube

SpecAlloc == InitAlloc /\ [][NextAlloc]_vars

InitScan ==
    /\ MatrixInit(<<"ugi", "vpch">>, MainRackRows, MainRackCols)
    /\ ScanInit
    /\ SortInit
    /\ CallIdle
    /\ CtlIdle

NextScan ==
    \/ ScanMoveFirst
    \/ ScanPass1Row
    \/ ScanPass1Move
    \/ ScanMoveSecond
    \/ ScanPass2Row
    \/ ScanPass2Move
    \/ \E i \in DOMAIN tasks : TaskStart(i)
    \/ \E i \in DOMAIN tasks : TaskFinish(i)
    \/ ScanReturn

SpecScan == InitScan /\ [][NextScan]_vars

\* The scan phase inside the program thread of start_program, with the stop
\* endpoint called at any time
RunScan ==
    /\ \E t \in DOMAIN thread_pc : thread_pc[t] = "run"
    /\ NextScan

InitScanStop ==
    /\ MatrixInit(<<"ugi", "vpch">>, MainRackRows, MainRackCols)
    /\ ScanInit
    /\ SortInit
    /\ CallIdle
    /\ ServerInit({1})

NextScanStop ==
    \/ StartProgram
    \/ StopProgram
    \/ \E t \in DOMAIN thread_pc : OrchSetRunning(t)
    \/ RunScan

SpecScanStop == InitScanStop /\ [][NextScanStop]_vars

\* One call of the constructor with any list of types and any small capacity
InitCtor ==
    /\ Unconstructed
    /\ ScanIdle
    /\ SortInit
    /\ CallIdle
    /\ CtlIdle

NextCtor == Construct

SpecCtor == InitCtor /\ [][NextCtor]_vars

\* One classification task with any outcome of its request
InitParse ==
    /\ MatrixInit(<<"ugi", "vpch">>, MainRackRows, MainRackCols)
    /\ ScanIdle
    /\ SortInit
    /\ CtlIdle
    /\ ctor = NoCall
    /\ exchange \in Exchanges
    /\ parsed = NoCall
    /\ move = NoMove

NextParse == ProcessTube

SpecParse == InitParse /\ [][NextParse]_vars

\* The allocator of main_async with a rack of any small size, filled as the
\* classification tasks fill it, then the sort phase
SortAddTube ==
    /\ sort_pc = "idle"
    /\ AddTube

\* The operator confirms a replacement once the sort phase is over: the phase
\* itself never waits for one
SortChangeRack ==
    /\ sort_pc = "done"
    /\ ChangeRack

InitSort ==
    /\ \E rows \in 1 .. MaxRows, cols \in 1 .. MaxCols :
          MatrixInit(<<"ugi", "vpch">>, rows, cols)
    /\ ScanIdle
    /\ SortInit
    /\ CallIdle
    /\ CtlIdle

NextSort ==
    \/ SortAddTube
    \/ SortBegin
    \/ SortItem
    \/ SortMove
    \/ SortSetDO
    \/ SortEnd
    \/ SortChangeRack

SpecSort == InitSort /\ [][NextSort]_vars

InitServer ==
    /\ AllocIdle
    /\ ScanIdle
    /\ SortInit
    /\ CallIdle
    /\ ServerInit(1 .. MaxThreads)

NextServer ==
    \/ StartProgram
    \/ StopProgram
    \/ PauseProgram
    \/ ResumeProgram
    \/ ChangeRack
    \/ \E t \in DOMAIN thread_pc : BeginCommand(t)
    \/ \E t \in DOMAIN thread_pc : EndCommand(t)
    \/ \E t \in DOMAIN thread_pc : FinishRun(t)

SpecServer == InitServer /\ [][NextServer]_vars

\* One orchestrator at a time
InitCtl ==
    /\ AllocIdle
    /\ ScanIdle
    /\ SortInit
    /\ CallIdle
    /\ ServerInit({1})

NextCtl ==
    \/ StartProgram
    \/ StopProgram
    \/ PauseProgram
    \/ ResumeProgram
    \/ ChangeRack
    \/ \E t \in DOMAIN thread_pc : OrchSetRunning(t)
    \/ \E t \in DOMAIN thread_pc : BeginCommand(t)
    \/ \E t \in DOMAIN thread_pc : EndCommand(t)
    \/ \E t \in DOMAIN thread_pc : FinishRun(t)
    \/ \E t \in DOMAIN thread_pc : CpBegin(t)
    \/ \E t \in DOMAIN thread_pc : CpMoveEnd(t)
    \/ \E t \in DOMAIN thread_pc : CpSetPaused(t)
    \/ \E t \in DOMAIN thread_pc : CpCheck(t)
    \/ \E t \in DOMAIN thread_pc : CpPoll(t)
    \/ \E t \in DOMAIN thread_pc : CpExit(t)
    \/ \E t \in DOMAIN thread_pc : WaitBegin(t)
    \/ \E t \in DOMAIN thread_pc : WaitPoll(t)
    \/ \E t \in DOMAIN thread_pc : WaitExit(t)

SpecCtl == InitCtl /\ [][NextCtl]_vars

\* One orchestrator and the endpoints that set and clear the pause flags,
\* with the polls of wait_for_pause_clear counted
NextPause ==
    \/ StartProgram
    \/ StopProgram
    \/ PauseProgram
    \/ ResumeProgram
    \/ \E t \in DOMAIN thread_pc : OrchSetRunning(t)
    \/ \E t \in DOMAIN thread_pc : CpBegin(t)
    \/ \E t \in DOMAIN thread_pc : CpMoveEnd(t)
    \/ \E t \in DOMAIN thread_pc : CpSetPaused(t)
    \/ \E t \in DOMAIN thread_pc : CpCheck(t)
    \/ \E t \in DOMAIN thread_pc : CpSleep(t)
    \/ \E t \in DOMAIN thread_pc : CpPoll(t)
    \/ \E t \in DOMAIN thread_pc : CpExit(t)

SpecPause == InitCtl /\ [][NextPause]_vars

\* One call of move_robot_by_registers after another, beside the manipulator
InitMove ==
    /\ AllocIdle
    /\ ScanIdle
    /\ SortInit
    /\ CtlIdle
    /\ CallIdle

NextMove ==
    \/ MoveCall
    \/ MoveSetRegister
    \/ MoveStartProgram
    \/ MovePoll
    \/ MoveTimeout
    \/ RobotBegin
    \/ RobotFinish

SpecMove == InitMove /\ [][NextMove]_vars

InitStore ==
    /\ AllocIdle
    /\ ScanIdle
    /\ SortInit
    /\ CallIdle
    /\ StoreInit

NextStore ==
    \/ \E p \in Procs : StoreRead(p)
    \/ \E p \in Procs, value \in BOOLEAN : StoreSetRunning(p, value)
    \/ \E p \in Procs : StoreSetPauseRequested(p)
    \/ \E p \in Procs, value \in BOOLEAN : StoreSetPaused(p, value)
    \/ \E p \in Procs, rack_type \in RackTags : StoreSetRackToChange(p, rack_type)
    \/ \E p \in Procs : StoreConfirmRackReplaced(p)

SpecStore == InitStore /\ [][NextStore]_vars

----------------------------------------------------------------------------
(* C1: no two assigned items hold the same (destination_rack,              *)
(* destination_row, destination_col), in every accepted configuration and  *)
(* after every sequence of add_tube calls.                                 *)
Dest(t) == <<t.destination_rack, t.destination_row, t.destination_col>>

C1_NoSharedDestination ==
    \A i, j \in DOMAIN tubes : i # j => Dest(tubes[i]) # Dest(tubes[j])

\* three items assigned, two of them in one rack across a row wrap
C1_Witness ==
    /\ Len(tubes) = 3
    /\ \E i, j \in DOMAIN tubes :
          /\ i < j
          /\ tubes[i].destination_rack = tubes[j].destination_rack
          /\ tubes[i].destination_row < tubes[j].destination_row

----------------------------------------------------------------------------
(* C2: on every path on which scan_and_request_parallel returns, every     *)
(* classification task it launched has completed; none is still pending.   *)
C2_ReturnAfterAllTasks ==
    scan_pc = "returned" => \A i \in DOMAIN tasks : TaskComplete(tasks[i])

\* the function returned after launching two tasks, one of which raised
C2_Witness ==
    /\ scan_pc = "returned"
    /\ Len(tasks) = 2
    /\ \E i \in DOMAIN tasks : tasks[i].st = "raised"
    /\ \E i \in DOMAIN tasks : tasks[i].st = "done"

----------------------------------------------------------------------------
(* C3: commands to the manipulator never overlap: at no time are two       *)
(* command sequences in progress at once, whatever start, stop, pause and  *)
(* resume requests arrive.                                                 *)
C3_NoOverlappingCommands ==
    Cardinality({t \in DOMAIN thread_pc : thread_pc[t] = "motion"}) <= 1

(* C4: a start() issued while the run begun by an earlier start() is still *)
(* executing reports "already running" and launches no second orchestrator *)
(* thread.                                                                 *)
C4_StartRefusedWhileRunExecutes ==
    /\ (last_req.op = "start" /\ last_req.live) => last_req.result = "already_running"
    /\ Cardinality({t \in DOMAIN thread_pc : Live(t)}) <= 1

(* C5: after start() succeeded the RunState is running=true, paused=false, *)
(* pause_requested=false, no pending rack replacement, rack_replaced=false,*)
(* and running stays true while the run goes on and stop() was not called. *)
C5_RunningAfterStart ==
    (last_req.op = "start" /\ last_req.result = "ok" /\ RunLive) =>
        /\ Loaded("web").running
        /\ ~Loaded("web").paused
        /\ ~Loaded("web").pause_requested
        /\ Loaded("web").rack_to_change = None
        /\ ~Loaded("web").rack_replaced

(* C6: with one RobotController per process over the same state file, a    *)
(* read returns for each field the value of the latest write to that field *)
(* by either side; a write of one field never reverts a field the other    *)
(* side wrote.                                                             *)
C6_ReadsSeeLatestWrites ==
    \A p \in DOMAIN mem :
        file # <<>> => \A f \in Fields : Loaded(p)[f] = written[f]

(* C7: after stop() set running=false, every checkpoint evaluation that    *)
(* returns (a fresh one, one in its pause-pose move, one blocked in the    *)
(* wait) reports abort.                                                    *)
C7_AbortAfterStop ==
    chk.ret_stopped => chk.ret = "abort"

\* The endpoint op handled a request in this step
Handled(op) == last_req' # last_req /\ last_req'.op = op

InCheckpointAfterRequest(t) ==
    thread_pc[t] \in {"cp_pause", "cp_check", "cp_wait", "cp_exit"}

----------------------------------------------------------------------------
(* C11: wait_for_rack_replacement(tag) records tag as the pending          *)
(* destination and clears rack_replaced before it polls, so an             *)
(* acknowledgement given before the request never satisfies it; it returns *)
(* True only when an acknowledgement was issued after the request, and     *)
(* returns False when the timeout elapsed with none.                       *)
C11_WaitNeedsLaterAck ==
    [][\A t \in DOMAIN thread_pc :
          /\ (thread_pc[t] = "run" /\ thread_pc'[t] = "w_poll") =>
                 /\ chk'.wait_tag \in RackTags
                 /\ Loaded("web")'.rack_to_change = chk'.wait_tag
                 /\ ~Loaded("web")'.rack_replaced
          /\ (thread_pc[t] = "w_poll" /\ thread_pc'[t] = "w_seen") =>
                 chk.acked # {}
          /\ (thread_pc[t] \in {"w_seen", "w_timeout"} /\ thread_pc'[t] = "run") =>
                 /\ chk'.wait_ret = "true" => chk.acked # {}
                 /\ (thread_pc[t] = "w_timeout" /\ chk.acked = {}) =>
                        chk'.wait_ret = "false"]_vars

\* a replacement was acknowledged, then asked for, and the wait timed out
\* and returned False: the earlier acknowledgement did not count
C11_Witness ==
    /\ chk.wait_ret = "false"
    /\ chk.acked = {}
    /\ last_req.op = "change_rack"
    /\ last_req.after.rack_replaced
    /\ ~Loaded("web").rack_replaced
    /\ Loaded("web").rack_to_change \in RackTags

----------------------------------------------------------------------------
(* C12: confirm_rack_replacement handled while no replacement is pending   *)
(* is a no-op: every field of the RunState (rack_replaced and              *)
(* rack_to_change included) has the same value after the call as before.   *)
C12_ConfirmWithoutPendingIsNoOp ==
    [][(Handled("change_rack") /\ Loaded("web").rack_to_change = None) =>
          Loaded("web")' = Loaded("web")]_vars

----------------------------------------------------------------------------
(* C13: confirm_rack_replacement(destination_tag) acknowledges the pending *)
(* request for that tag: a wait pending for tag X is released (its loop    *)
(* sees the acknowledgement, it returns True) only when a confirmation for *)
(* X was given, never by confirmations that all carry another tag.         *)
C13_ConfirmReleasesOnlyItsTag ==
    [][\A t \in DOMAIN thread_pc :
          (\/ thread_pc[t] = "w_poll" /\ thread_pc'[t] = "w_seen"
           \/ /\ thread_pc[t] \in {"w_seen", "w_timeout"}
              /\ thread_pc'[t] = "run"
              /\ chk'.wait_ret = "true") =>
              chk.wait_tag \in chk.acked]_vars

----------------------------------------------------------------------------
\* The latest add_tube call was rejected because the rack of its type is full
Overflowed ==
    /\ last_add.barcode > 0
    /\ ~last_add.ok
    /\ last_add.test_type \in DOMAIN racks

(* C14: when a rack of rows x cols cells receives rows*cols+1 items of its *)
(* classification, the last item is not dropped: by the end of the sort    *)
(* phase the rack-full sub-protocol was triggered for it (a replacement of *)
(* its rack was requested), and once the replacement is confirmed the item *)
(* is picked up and placed at cell (0,0) of the reset rack.                *)
C14_OverflowItemNotDropped ==
    (sort_pc = "done" /\ Overflowed) =>
        \/ Loaded("web").rack_to_change = last_add.test_type
        \/ /\ Loaded("web").rack_replaced
           /\ \E i \in DOMAIN tubes :
                  /\ tubes[i].barcode = last_add.barcode
                  /\ tubes[i].destination_row = 0
                  /\ tubes[i].destination_col = 0
                  /\ \E j \in DOMAIN picked : picked[j] = last_add.barcode

----------------------------------------------------------------------------
\* The items assigned to the rack of one classification, in assignment order
TubesOf(tt) == SelectSeq(tubes, LAMBDA t : t.test_type = tt)

(* C15: in every reachable allocator state the occupied cells of each rack *)
(* are a gapless row-major prefix filled in add_tube call order: the k-th  *)
(* successful add_tube of a classification (k from 0) holds cell           *)
(* (k div cols, k mod cols), and the cursor is (n div cols, n mod cols)    *)
(* for the n items assigned to the rack.                                   *)
C15_RowMajorPrefix ==
    \A tt \in DOMAIN racks :
        LET q == TubesOf(tt)
            n == Len(q)
        IN  /\ \A k \in 1 .. n :
                   /\ q[k].destination_row = (k - 1) \div rack_cols
                   /\ q[k].destination_col = (k - 1) % rack_cols
                   /\ racks[tt][<<q[k].destination_row, q[k].destination_col>>]
                          = q[k].barcode
                   /\ \A j \in 1 .. k - 1 : q[j].barcode < q[k].barcode
            /\ rack_positions[tt] = <<n \div rack_cols, n % rack_cols>>
            /\ \A cell \in DOMAIN racks[tt] :
                   racks[tt][cell] # 0 <=> cell[1] * rack_cols + cell[2] < n

\* a rack of two columns holds three items: a full row, then the first cell
\* of the next row, and the cursor stands at the second
C15_Witness ==
    \E tt \in DOMAIN racks :
        /\ rack_cols = 2
        /\ Len(TubesOf(tt)) = 3
        /\ rack_positions[tt] = <<1, 1>>
        /\ racks[tt][<<1, 0>>] # 0

----------------------------------------------------------------------------
\* The cursor of a rack has left its last row
CursorPastEnd(tt) == rack_positions[tt][1] >= rack_rows

(* C16: add_tube for a classification whose rack is full (cursor row >=    *)
(* rows) returns False and changes nothing: the item is not recorded in    *)
(* tubes, no cursor moves, no cell of any rack is written; and a full rack *)
(* stays full, so every later add_tube for it is rejected too.             *)
C16_FullRackRejects ==
    [][\A tt \in DOMAIN racks :
          CursorPastEnd(tt) =>
              /\ rack_positions'[tt] = rack_positions[tt]
              /\ racks'[tt] = racks[tt]
              /\ (last_add' # last_add /\ last_add'.test_type = tt) =>
                     /\ ~last_add'.ok
                     /\ UNCHANGED <<racks, tubes, rack_positions>>
                     /\ \A i \in DOMAIN tubes' :
                            tubes'[i].barcode # last_add'.barcode]_vars

\* a rack took its one item and then rejected two more of its classification
C16_Witness ==
    /\ last_add.barcode = 3
    /\ ~last_add.ok
    /\ Len(tubes) = 1
    /\ tubes[1].test_type = last_add.test_type
    /\ CursorPastEnd(last_add.test_type)
    /\ Cardinality(DOMAIN racks) >= 2

----------------------------------------------------------------------------
(* C17: when the replacement of a full rack is confirmed                   *)
(* (confirm_rack_replacement for its classification), the rack is reset:   *)
(* its cursor is exactly (0,0) and it holds no item, so that the next      *)
(* add_tube for that classification succeeds at cell (0,0).                *)
C17_ResetOnReplacement ==
    [][\A tt \in DOMAIN racks :
          (Handled("change_rack") /\ last_req'.arg = tt /\ CursorPastEnd(tt)) =>
              /\ rack_positions'[tt] = <<0, 0>>
              /\ \A cell \in DOMAIN racks'[tt] : racks'[tt][cell] = 0]_vars

----------------------------------------------------------------------------
(* C18: an item whose classification is not one of the configured test     *)
(* types is never assigned a destination (add_tube returns False, the item *)
(* is not in tubes) and is never picked up or placed by                    *)
(* process_tubes_by_test_matrix: every item in tubes, picked up or placed  *)
(* has a configured type.                                                  *)
C18_UnsupportedNeverMoved ==
    /\ \A i \in DOMAIN tubes : tubes[i].test_type \in Range(test_types)
    /\ \A j \in DOMAIN picked :
           \E i \in DOMAIN tubes : tubes[i].barcode = picked[j]
    /\ \A j \in DOMAIN placed :
           \E i \in DOMAIN tubes : tubes[i] = placed[j]
    /\ (last_add.barcode > 0 /\ last_add.test_type \notin Range(test_types)) =>
           /\ ~last_add.ok
           /\ \A i \in DOMAIN tubes : tubes[i].barcode # last_add.barcode
           /\ \A j \in DOMAIN picked : picked[j] # last_add.barcode
           /\ \A j \in DOMAIN placed : placed[j].barcode # last_add.barcode

\* the sort phase ended: an item classified "unknown" was rejected and left
\* alone while an assigned item was picked up and placed
C18_Witness ==
    /\ sort_pc = "done"
    /\ last_add.test_type = "unknown"
    /\ ~last_add.ok
    /\ Len(placed) >= 1
    /\ Len(picked) = Len(tubes)

----------------------------------------------------------------------------
(* C19: for every configuration the TestMatrix constructor accepts (any    *)
(* list of 2 to 6 TestType values), an item classified ERROR or UNKNOWN is *)
(* never assigned a destination.                                           *)
C19_ErrorUnknownNeverAssigned ==
    \A i \in DOMAIN tubes : tubes[i].test_type \notin {"error", "unknown"}

----------------------------------------------------------------------------
(* C20: over a whole run each item is assigned a destination at most once  *)
(* (no item appears twice in tubes), and once an item's destination_rack,  *)
(* destination_row and destination_col are set no later step (a further    *)
(* add_tube call, a pickup, a place, a failure of either) changes them; an *)
(* item is placed with the destination it was assigned.                    *)
C20_AssignedOnceAndFixed ==
    /\ [](\A i, j \in DOMAIN tubes :
              i # j => tubes[i].barcode # tubes[j].barcode)
    /\ [](\A j \in DOMAIN placed :
              \E i \in DOMAIN tubes : tubes[i] = placed[j])
    /\ [][\A i \in DOMAIN tubes :
              \E j \in DOMAIN tubes' : tubes'[j] = tubes[i]]_vars

\* two items were assigned, a third call was made, and the sort phase ended
\* after picking both up and failing on one of them
C20_Witness ==
    /\ sort_pc = "done"
    /\ Len(tubes) = 2
    /\ last_add.barcode = 3
    /\ Len(picked) = 2
    /\ Len(placed) = 1

----------------------------------------------------------------------------
\* The request was answered with status 200 and an object whose status is
\* "success" and whose test_codes list starts with a string
SuccessWithCodes(x) ==
    /\ x.kind = "http"
    /\ x.status_code = HttpOk
    /\ x.body.kind = "dict"
    /\ Get(x.body, "status", None) = "success"
    /\ Get(x.body, "test_codes", <<>>) # <<>>
    /\ x.body.test_codes[1] # NonStringCode

\* The five codes that name a test type
KnownCodes == {"ugi", "vpch", "ugi+vpch", "general", "buffer"}

(* C21: on a successful response parse_test_type classifies by the first   *)
(* code of the list only, whatever follows it: a first code that is, in    *)
(* lower case, one of ugi, vpch, ugi+vpch, general, buffer yields that     *)
(* type, the code "error" of the mapping yields ERROR, and every code      *)
(* outside the mapping yields UNKNOWN, for every list of up to MaxCodes    *)
(* codes.                                                                  *)
C21_FirstCodeClassifies ==
    (parsed.st # "none" /\ SuccessWithCodes(exchange)) =>
        LET first == Lower(exchange.body.test_codes[1])
        IN  /\ parsed.st = "item"
            /\ first \in KnownCodes => parsed.test_type = first
            /\ first = "error" => parsed.test_type = "error"
            /\ first \notin KnownCodes \cup {"error"} => parsed.test_type = "unknown"

C21_Witness ==
    /\ SuccessWithCodes(exchange)
    /\ exchange.body.test_codes = <<"ugi", "VPCH">>
    /\ parsed = [st |-> "item", test_type |-> "ugi"]

----------------------------------------------------------------------------
\* The request timed out, failed on the network, was answered with a status
\* other than 200 or with a status field other than "success", or its reply
\* is missing or ill-formed: no JSON, no object, no test_codes list, or a
\* code that is no string
FailedRequest(x) ==
    \/ x.kind \in {"timeout", "network_error"}
    \/ x.status_code # HttpOk
    \/ x.body.kind # "dict"
    \/ Get(x.body, "status", None) # "success"
    \/ "test_codes" \notin DOMAIN x.body
    \/ /\ x.body.test_codes # <<>>
       /\ x.body.test_codes[1] = NonStringCode

(* C22: every classification request that times out, hits a network error, *)
(* gets a non-success status or a missing or ill-formed response yields an *)
(* Item whose classification is ERROR: none yields another classification  *)
(* and none yields no Item.                                                *)
C22_FailuresYieldError ==
    (parsed.st # "none" /\ FailedRequest(exchange)) =>
        parsed = [st |-> "item", test_type |-> "error"]


----------------------------------------------------------------------------
(* C23: a classification task that fails or raises neither aborts the scan *)
(* phase nor cancels another task: once a task has raised, every task not  *)
(* yet complete can still take its next step (a task awaiting its reply    *)
(* can still finish with its item offered to add_tube), and the phase      *)
(* returns only when every task is complete.                               *)
C23_RaisedTaskCancelsNothing ==
    (\E i \in DOMAIN tasks : tasks[i].st = "raised") =>
        /\ scan_pc \in {"join", "join_fail", "returned"}
        /\ \A j \in DOMAIN tasks :
              \/ tasks[j].st \in {"done", "raised"}
              \/ /\ scan_pc # "returned"
                 /\ tasks[j].st = "pending"
                 /\ ENABLED TaskStart(j)
              \/ /\ scan_pc # "returned"
                 /\ tasks[j].st = "awaiting"
                 /\ ENABLED (TaskFinish(j) /\ last_add'.barcode = tasks[j].barcode)

C23_Witness ==
    /\ scan_pc = "returned"
    /\ \E i, j \in DOMAIN tasks :
          /\ i < j
          /\ tasks[i].st = "raised"
          /\ tasks[j].st = "done"
          /\ \E k \in DOMAIN tubes : tubes[k].barcode = tasks[j].barcode


----------------------------------------------------------------------------
\* The number of iterations of the sort loop begun so far
Attempted == IF sort_pc \in {"idle", "item", "done"} THEN sort_idx - 1 ELSE sort_idx

(* C24: process_tubes_by_test_matrix attempts the assigned items in        *)
(* assignment order and no failure or exception ends the loop: the items   *)
(* handed to pickup_tube so far are exactly the first items of tubes, in   *)
(* order and once each, and when the phase is over every item of tubes was *)
(* attempted exactly once.                                                 *)
C24_EveryItemAttemptedInOrder ==
    sort_pc # "idle" =>
        /\ Len(picked) = Attempted
        /\ \A k \in DOMAIN picked : picked[k] = tubes[k].barcode
        /\ sort_pc = "done" =>
              \A i \in DOMAIN tubes :
                 Cardinality({k \in DOMAIN picked : picked[k] = tubes[i].barcode}) = 1

C24_Witness ==
    /\ sort_pc = "done"
    /\ Len(tubes) = MaxTubes
    /\ Len(picked) = MaxTubes
    /\ Len(placed) = 1
    /\ placed[1] = tubes[MaxTubes]


----------------------------------------------------------------------------
(* C25: the end-effector is never left energized: whenever an item         *)
(* iteration has ended (success, pickup failure at any of its three moves, *)
(* place failure, caught exception) and whenever the phase has ended,      *)
(* digital outputs 2 (pickup) and 1 (release) are both OFF.                *)
C25_OutputsOffBetweenItems ==
    sort_pc \in {"item", "done"} => \A do_id \in DOMAIN do_out : ~do_out[do_id]

----------------------------------------------------------------------------
(* C26: the pick-and-place loop consults the Run Coordinator's checkpoint  *)
(* before each item: an item is handed to pickup_tube only when the        *)
(* checkpoint evaluated last has returned "continue", so after an abort no *)
(* pickup or place motion is issued for that item or any later one.        *)
C26_CheckpointBeforeEachItem ==
    [][picked' # picked => chk.ret = "continue"]_vars


----------------------------------------------------------------------------
\* The steps of the scan phase that command a move to a scan group
ScanMovePcs == {"start", "p1_move", "p2_move", "p2_move_row"}

(* C27: when stop() is called during the scan phase, no move to a further  *)
(* scan group is commanded once the request was handled (the checkpoint    *)
(* before the group sees it); the tasks in flight are still awaited and    *)
(* the phase returns.                                                      *)
C27_NoGroupAfterStop ==
    [][(last_req.op = "stop" /\ scan_pc \in ScanMovePcs) => scan_pc' = scan_pc]_vars

----------------------------------------------------------------------------
(* C28: a scan group with no cell to read is skipped entirely (the scanner *)
(* is not triggered for it), and a group with exactly one such cell causes *)
(* exactly one scan command and exactly one classification task.           *)
C28_ScanFollowsOccupancy ==
    [][(scan_pc \in {"p1_scan", "p2_scan"} /\ scan_pc' # scan_pc) =>
          LET launched == Len(tasks') - Len(tasks)
          IN  /\ launched # 0
              /\ launched = 1 => triggers' = 1]_vars

----------------------------------------------------------------------------
(* C30: classification requests are processed concurrently with scanning:  *)
(* a task launched for an earlier group can make progress while the robot  *)
(* is still moving and scanning, before the final barrier.                 *)
C30_TasksRunDuringScan ==
    \A i \in DOMAIN tasks :
       (tasks[i].st = "pending" /\ scan_pc # "returned") => ENABLED TaskStart(i)


----------------------------------------------------------------------------
(* C29: TestMatrix accepts exactly the configurations with 2 to 6 test     *)
(* types: with fewer or more the constructor raises ValueError and creates *)
(* no grid; after a successful construction every configured type has an   *)
(* empty rows x cols grid and the cursor (0,0), and no other type has one. *)
C29_AcceptsTwoToSixTypes ==
    ctor.st # "none" =>
        LET n == Len(ctor.test_types)
            rows == ctor.rack_capacity[1]
            cols == ctor.rack_capacity[2]
        IN  IF n < 2 \/ n > 6
            THEN /\ ctor.st = "ValueError"
                 /\ DOMAIN racks = {}
                 /\ DOMAIN rack_positions = {}
            ELSE /\ ctor.st = "ok"
                 /\ DOMAIN racks = Range(ctor.test_types)
                 /\ DOMAIN rack_positions = Range(ctor.test_types)
                 /\ \A tt \in Range(ctor.test_types) :
                       /\ DOMAIN racks[tt] = (0 .. rows - 1) \X (0 .. cols - 1)
                       /\ \A cell \in DOMAIN racks[tt] : racks[tt][cell] = 0
                       /\ rack_positions[tt] = <<0, 0>>

C29_Witness ==
    /\ ctor.st = "ok"
    /\ Len(ctor.test_types) = 2
    /\ ctor.rack_capacity = <<MaxRows, MaxCols>>
    /\ Cardinality(DOMAIN racks) = 2


----------------------------------------------------------------------------
(* C31: at a checkpoint that observes pause_requested, check_pause first   *)
(* attempts the pause-pose move and only afterwards sets paused and clears *)
(* pause_requested; the move being over, the checkpoint goes on to pause   *)
(* whether the move was done, returned failure or raised; and paused       *)
(* becomes true by no other step than this one of check_pause.             *)
C31_PauseAfterMoveAttempt ==
    [][/\ \A t \in DOMAIN thread_pc :
             /\ (thread_pc[t] = "cp_move" /\ thread_pc'[t] # "cp_move") =>
                   thread_pc'[t] = "cp_pause"
             /\ (thread_pc[t] = "cp_pause" /\ thread_pc'[t] # "cp_pause") =>
                   /\ Loaded("web")'.paused
                   /\ ~Loaded("web")'.pause_requested
       /\ (~Loaded("web").paused /\ Loaded("web")'.paused) =>
             \E t \in DOMAIN thread_pc :
                /\ thread_pc[t] = "cp_pause"
                /\ thread_pc'[t] = "cp_check"
                /\ chk.saw
                /\ chk.pose => (chk.cp_moves = 1 /\ chk.move_result # "none")]_vars

\* paused was set after a pause-pose move that returned failure
C31_Witness ==
    /\ \E t \in DOMAIN thread_pc : thread_pc[t] = "cp_check"
    /\ chk.saw
    /\ chk.move_result = "failed"
    /\ Loaded("web").paused
    /\ ~Loaded("web").pause_requested

----------------------------------------------------------------------------
(* C32: a checkpoint evaluated while paused always terminates: its wait    *)
(* polls at most MaxPausePolls times with paused set and can always take   *)
(* its next step; it returns "continue" when paused is found cleared and   *)
(* "abort" when the wait ended with paused still set; with neither         *)
(* pause_requested nor paused set the checkpoint returns "continue" at     *)
(* once, with no motion.                                                   *)
C32_PausedCheckpointTerminates ==
    /\ [](\A t \in DOMAIN thread_pc :
             thread_pc[t] = "cp_wait" =>
                 /\ chk.polls <= MaxPausePolls
                 /\ ENABLED CpSleep(t) \/ ENABLED CpPoll(t))
    /\ [][\A t \in DOMAIN thread_pc :
             /\ (thread_pc[t] = "cp_exit" /\ thread_pc'[t] # "cp_exit") =>
                   /\ thread_pc'[t] = "run"
                   /\ chk'.ret = IF Loaded("web").paused THEN "abort" ELSE "continue"
             /\ (thread_pc[t] = "cp_wait" /\ thread_pc'[t] # "cp_wait") =>
                   thread_pc'[t] = "cp_exit"
             /\ (thread_pc[t] = "cp_check" /\ thread_pc'[t] # "cp_check"
                    /\ ~chk.saw /\ ~Loaded("web").paused) =>
                   /\ thread_pc'[t] = "run"
                   /\ chk'.ret = "continue"
                   /\ chk.cp_moves = 0]_vars

\* the wait polled until the timeout with paused still set, and the
\* checkpoint returned "abort"
C32_Witness ==
    /\ chk.polls = MaxPausePolls
    /\ chk.ret = "abort"
    /\ Loaded("web").paused
    /\ \E t \in DOMAIN thread_pc : thread_pc[t] = "run"


----------------------------------------------------------------------------
\* The cell of the pass arrays that a row and a column of the source pallet
\* name: columns 0-2 are the first pass, columns 3-5 the second
CellOf(row, col) ==
    IF col < GroupSize
    THEN first_pass_data[row][col]
    ELSE second_pass_data[row][col - GroupSize]

(* C33: during scanning exactly one classification task is launched for    *)
(* each scanned cell that holds a readable identifier and none for an      *)
(* empty or unreadable cell; the task carries the cell's row, its column   *)
(* (second-pass columns offset by 3) and the first token read for it, which*)
(* no later scan attempt overwrites; the tasks of a row exist before the   *)
(* manipulator is commanded to the next row.                               *)
C33_OneTaskPerReadableCell ==
    scan_pc # "idle" =>
        /\ \A row \in 0 .. ScanRows - 1, col \in 0 .. 2 * GroupSize - 1 :
              CellOf(row, col) # 0
                  <=> \E i \in DOMAIN tasks :
                         tasks[i].row = row /\ tasks[i].col = col
        /\ \A i, j \in DOMAIN tasks :
              (tasks[i].row = tasks[j].row /\ tasks[i].col = tasks[j].col)
                  => i = j
        /\ \A i \in DOMAIN tasks :
              /\ tasks[i].barcode = CellOf(tasks[i].row, tasks[i].col)
              /\ tasks[i].barcode = BarcodeAt(tasks[i].row, tasks[i].col)

\* the second scanner call read a second cell of the row and named the first
\* one again; the robot is about to move to the next row
C33_Witness ==
    /\ scan_pc = "p1_move"
    /\ triggers = MaxAttempts
    /\ Len(tasks) = 2
    /\ tasks[1].row = 0
    /\ tasks[2].row = 0
    /\ tasks[1].st = "pending"


(* C34: a failed move (or idle-wait timeout) during scanning costs only the*)
(* scan group it was heading to and never aborts the scan phase: after     *)
(* every move command of the phase, failed or not, the scan goes on with   *)
(* the scan of a group, until every group of the pallet was visited.       *)
C34_MoveFailureKeepsScanning ==
    [][(scan_pc \in ScanMovePcs /\ scan_pc' # scan_pc)
           => (scan_pc' \in {"p1_scan", "p2_scan"})]_vars


----------------------------------------------------------------------------
\* The commands of pickup_tube in the order of its source text
PickupOrder ==
    << <<"move", "pickup", "z_safe">>, SetDO(2, TRUE),
       <<"move", "pickup", "z_pickup">>, SetDO(2, FALSE),
       <<"move", "pickup", "z_up">> >>

IsMove(e) == e.cmd[1] = "move"

\* The commands of the current iteration that one function issued
IssuedBy(f) == SelectSeq(cmds, LAMBDA e : e.by = f)

(* C35: pickup_tube issues its commands in the order move to the safe      *)
(* height, output 2 ON, move to the pickup height, (hold,) output 2 OFF,   *)
(* move to the lift height; once one of its three moves has failed no move *)
(* at all is issued for that item, by pickup_tube or by place_tube, and the *)
(* loop goes on to its next iteration.                                     *)
C35_PickupOrderAndAbort ==
    LET pk == IssuedBy("pickup_tube")
    IN  /\ \A k \in DOMAIN pk :
              (\A j \in 1 .. k - 1 : pk[j].ok)
                  => k <= Len(PickupOrder) /\ pk[k].cmd = PickupOrder[k]
        /\ \A k \in DOMAIN cmds :
              (cmds[k].by = "pickup_tube" /\ IsMove(cmds[k]) /\ ~cmds[k].ok)
                  => /\ \A j \in k + 1 .. Len(cmds) : ~IsMove(cmds[j])
                     /\ sort_pc \in {"pick_abort", "exc_off2", "exc_on1",
                                     "exc_off1", "item"}
                     /\ IssuedBy("place_tube") = <<>>

\* the lift move of the first item failed, output 2 was switched off and the
\* loop stands at its second item
C35_Witness ==
    /\ sort_pc = "item"
    /\ sort_idx = 2
    /\ Len(tubes) >= 2
    /\ Len(cmds) = 6
    /\ cmds[5].cmd = PickupOrder[5]
    /\ ~cmds[5].ok
    /\ cmds[6].cmd = SetDO(2, FALSE)

(* C36: whenever place_tube has failed at one of its two moves, the        *)
(* compensation is issued before the next item is started: output 2 OFF,   *)
(* then output 1 ON and then OFF; and when place_tube has succeeded,       *)
(* output 1 was switched ON exactly once in the iteration, after both      *)
(* moves of place_tube.                                                    *)
C36_CompensationAfterFailedPlace ==
    sort_pc = "item" =>
        /\ \A k \in DOMAIN cmds :
              (cmds[k].by = "place_tube" /\ IsMove(cmds[k]) /\ ~cmds[k].ok)
                  => \E a, b, c \in k + 1 .. Len(cmds) :
                        /\ a < b
                        /\ b < c
                        /\ cmds[a].cmd = SetDO(2, FALSE)
                        /\ cmds[b].cmd = SetDO(1, TRUE)
                        /\ cmds[c].cmd = SetDO(1, FALSE)
        /\ (/\ cmds # <<>>
            /\ cmds[Len(cmds)].by = "place_tube"
            /\ cmds[Len(cmds)].ok)
              => /\ Cardinality({k \in DOMAIN cmds : cmds[k].cmd = SetDO(1, TRUE)}) = 1
                 /\ cmds[Len(cmds) - 1].cmd = SetDO(1, TRUE)
                 /\ \A k \in 1 .. Len(cmds) - 2 : cmds[k].cmd # SetDO(1, FALSE)


----------------------------------------------------------------------------
(* C37: wait_for_robot_idle always ends within its timeout: the number of  *)
(* polls is bounded and a waiting call can always take its next step; it   *)
(* returns True exactly on a poll that reported idle, without polling      *)
(* again, and False only when the timeout elapsed; a status poll that      *)
(* raises is followed by further polling; move_robot_by_registers returns  *)
(* False on a timeout and on an exception of a register or program         *)
(* command, and never ends in another way.                                 *)
C37_IdleWaitTerminates ==
    /\ [](/\ move.polls <= MaxIdlePolls
          /\ move.pc = "wait" =>
                /\ ENABLED (MovePoll \/ MoveTimeout)
                /\ move.status # ROBOT_IDLE
          /\ move.pc = "returned" => move.ret \in {"True", "False"}
          /\ move.ret = "True" =>
                move.cause = "idle_poll" /\ move.status = ROBOT_IDLE
          /\ move.ret = "False" =>
                \/ move.cause = "timeout" /\ move.polls = MaxIdlePolls
                                          /\ move.status # ROBOT_IDLE
                \/ move.cause = "exception" /\ move.status = "none")
    /\ [][(move.pc = "wait" /\ move'.polls # move.polls
              /\ move'.status = "raised")
             => move'.pc = "wait"]_vars

\* a poll raised, the next ones found the manipulator busy and the timeout
\* ended the wait
C37_Witness ==
    /\ move.pc = "returned"
    /\ move.ret = "False"
    /\ move.cause = "timeout"
    /\ move.motion = "moving"

(* C39: move_robot_by_registers returns True only after the motion it      *)
(* started has finished, never while that motion is pending or in          *)
(* progress.                                                               *)
C39_TrueOnlyAfterMotionFinished ==
    move.ret = "True" => move.motion = "finished"


----------------------------------------------------------------------------
\* The destination cells bound so far in the rack with one index
CellsOfRack(rack) ==
    {<<tubes[i].destination_row, tubes[i].destination_col>> :
        i \in {j \in DOMAIN tubes : tubes[j].destination_rack = rack}}

(* C38: in whatever order the classification tasks are resumed and         *)
(* complete, the allocator stays consistent: no two tasks obtain the same  *)
(* destination cell, the cells bound in a rack are its first cells in      *)
(* row-major order with none skipped, and the number of assigned items     *)
(* equals the number of tasks whose add_tube returned True, each assigned  *)
(* item being the identifier of one such task.                             *)
C38_AllocatorConsistentUnderInterleaving ==
    /\ \A i, j \in DOMAIN tubes :
          i # j => <<tubes[i].destination_rack, tubes[i].destination_row,
                     tubes[i].destination_col>>
                   # <<tubes[j].destination_rack, tubes[j].destination_row,
                       tubes[j].destination_col>>
    /\ \A rack \in 0 .. Len(test_types) - 1 :
          CellsOfRack(rack) =
              {<<k \div rack_cols, k % rack_cols>> :
                  k \in 0 .. Cardinality(CellsOfRack(rack)) - 1}
    /\ Len(tubes) = Cardinality({i \in DOMAIN tasks : tasks[i].added})
    /\ \A k \in DOMAIN tubes :
          Cardinality({i \in DOMAIN tasks :
                          tasks[i].added /\ tasks[i].barcode = tubes[k].barcode}) = 1

\* the task launched second completed first and both got cells of one rack
C38_Witness ==
    /\ Len(tasks) >= 2
    /\ Len(tubes) = 2
    /\ tubes[1].barcode = tasks[2].barcode
    /\ tubes[2].barcode = tasks[1].barcode
    /\ tubes[1].destination_rack = tubes[2].destination_rack
    /\ tubes[1].destination_col = 0
    /\ tubes[2].destination_col = 1


====
